---- MODULE Spec2Model ----
EXTENDS Integers, Sequences, FiniteSets, TLC

(***************************************************************************)
(* Model of src/src/stream-transformer.ts: the OpenAI-compatible stream    *)
(* transformer (createOpenAIStreamTransformer) and the Gemini native       *)
(* passthrough transformer (createGeminiNativeStreamTransformer).          *)
(***************************************************************************)

\* ------------------------------------------------------------------ bounds
\* Longest event sequence written to one transformer.
MaxEvents == 3

\* ------------------------------------------------------- JavaScript values
\* A JS value is a record tagged with its kind; an object is the sequence of
\* its own enumerable properties in insertion order.
Undefined == [t |-> "undefined"]
Null == [t |-> "null"]
Str(s) == [t |-> "string", s |-> s]
Num(n) == [t |-> "number", n |-> n]
Obj(entries) == [t |-> "object", e |-> entries]
Arr(items) == [t |-> "array", a |-> items]
Prop(key, value) == [k |-> key, v |-> value]
\* a template string `${prefix}${crypto.randomUUID()}`
Tpl(prefix, uuid) == [t |-> "string", prefix |-> prefix, uuid |-> uuid]
\* a string kept as its characters: a header, a query or binding value, the
\* message of an error
Text(chars) == [t |-> "string", c |-> chars]

\* typeof v === "string"
IsString(v) == v.t = "string"
\* typeof v === "object" && v !== null
IsNonNullObject(v) == v.t \in {"object", "array"}
\* the `in` operator on an object's own properties
In(key, v) == v.t = "object" /\ \E i \in 1..Len(v.e) : v.e[i].k = key
\* property read: undefined when the property is absent
Get(v, key) ==
    IF In(key, v)
    THEN v.e[CHOOSE i \in 1..Len(v.e) : v.e[i].k = key].v
    ELSE Undefined
\* Object.keys(v).length
ObjectKeysLength(v) == Len(v.e)
\* ToBoolean(v)
Truthy(v) ==
    CASE v.t \in {"undefined", "null"} -> FALSE
      [] v.t = "string" -> ~("s" \in DOMAIN v /\ v.s = "")
      [] v.t = "number" -> v.n # 0
      [] OTHER -> TRUE

\* JSON.stringify: a property whose value is undefined is left out of an
\* object, an undefined array element is written as null; the result of
\* stringifying undefined itself is undefined, otherwise a string holding
\* the JSON text (kept here as the tree that text denotes).
RECURSIVE JSONText(_)
JSONText(v) ==
    CASE v.t = "object" ->
            LET kept == SelectSeq(v.e, LAMBDA p : p.v.t # "undefined")
            IN  Obj([i \in 1..Len(kept) |-> Prop(kept[i].k, JSONText(kept[i].v))])
      [] v.t = "array" ->
            Arr([i \in 1..Len(v.a) |->
                    IF v.a[i].t = "undefined" THEN Null ELSE JSONText(v.a[i])])
      [] OTHER -> v

JSONstringify(v) ==
    IF v.t = "undefined" THEN Undefined ELSE [t |-> "string", json |-> JSONText(v)]

\* encoder.encode(`data: ${text}\n\n`): one SSE frame
SSEFrame(text) == [data |-> text]
DoneFrame == SSEFrame(Str("[DONE]"))

\* OPENAI_CHAT_COMPLETION_OBJECT (src/config.ts)
OPENAI_CHAT_COMPLETION_OBJECT == "chat.completion.chunk"

\* ------------------------------------------------------------ type guards
isReasoningData(data) ==
    IsNonNullObject(data) /\ (In("reasoning", data) \/ In("toolCode", data))

isGeminiFunctionCall(data) ==
    IsNonNullObject(data) /\ In("name", data) /\ In("args", data)

isUsageData(data) ==
    IsNonNullObject(data) /\ In("inputTokens", data) /\ In("outputTokens", data)

isNativeToolResponse(data) ==
    IsNonNullObject(data) /\ In("type", data) /\ In("data", data)

\* the guard without the candidates test
isGeminiNativeResponseAnyObject(data) == IsNonNullObject(data)

isGeminiNativeResponse(data) ==
    IsNonNullObject(data) /\ In("candidates", data)

\* ------------------------------------------------------- generation events
Chunk(type, data) == [type |-> type, data |-> data]

FunctionCallF == Obj(<<Prop("name", Str("f")),
                       Prop("args", Obj(<<Prop("x", Num(1))>>))>>)
UsageA == Obj(<<Prop("inputTokens", Num(10)), Prop("outputTokens", Num(5))>>)
UsageB == Obj(<<Prop("inputTokens", Num(1)), Prop("outputTokens", Num(2))>>)
NativeToolA == Obj(<<Prop("type", Str("google_search")),
                     Prop("data", Obj(<<Prop("q", Str("q"))>>))>>)
GroundingA == Obj(<<Prop("webSearchQueries", Arr(<<Str("q")>>))>>)

\* The StreamChunk values the upstream client may write to the OpenAI
\* transformer: for every kind a well-formed payload and one that fails the
\* kind's structural check, plus a chunk of a kind the switch does not know.
StreamChunks ==
    {Chunk("text", d) : d \in {Str("a"), Str("b"), Num(7)}}
    \cup {Chunk("thinking_content", Str("c"))}
    \cup {Chunk("real_thinking", d) : d \in {Str("r"), Null}}
    \cup {Chunk("reasoning", d) :
            d \in {Obj(<<Prop("reasoning", Str("why"))>>),
                   Obj(<<Prop("toolCode", Str("code"))>>),
                   Str("x")}}
    \cup {Chunk("tool_code", d) :
            d \in {FunctionCallF, Obj(<<Prop("name", Str("f"))>>)}}
    \cup {Chunk("native_tool", d) :
            d \in {NativeToolA, Obj(<<Prop("type", Str("google_search"))>>)}}
    \cup {Chunk("grounding_metadata", d) : d \in {GroundingA, Null}}
    \cup {Chunk("finish_reason", d) :
            d \in {Str("STOP"), Str("MAX_TOKENS"), Str("SAFETY"),
                   Str("RECITATION"), Str("OTHER"), Null}}
    \cup {Chunk("usage", d) :
            d \in {UsageA, UsageB, Obj(<<Prop("inputTokens", Num(10))>>)}}
    \cup {Chunk("ping", Str("a"))}

EnvelopeA == Obj(<<Prop("candidates",
                        Arr(<<Obj(<<Prop("content",
                            Obj(<<Prop("parts",
                                Arr(<<Obj(<<Prop("text", Str("hi"))>>)>>))>>))>>)>>))>>)
EnvelopeB == Obj(<<Prop("candidates", Arr(<<>>)),
                   Prop("usageMetadata",
                        Obj(<<Prop("promptTokenCount", Num(1)),
                              Prop("candidatesTokenCount", Num(2)),
                              Prop("totalTokenCount", Num(3))>>)),
                   Prop("modelVersion", Str("m"))>>)

\* The GeminiNativeStreamChunk values written to the native transformer.
NativeChunks ==
    {Chunk("gemini_native", d) :
        d \in {EnvelopeA, EnvelopeB,
               Obj(<<Prop("error", Str("e"))>>), Null, Str("x"),
               Arr(<<Str("candidates")>>)}}
    \cup {Chunk("text", EnvelopeA)}

\* The values crypto.randomUUID() can return: one for the session id and one
\* per tool call, for two sessions.
UUIDs == 1..(2 * MaxEvents + 2)
\* crypto.randomUUID(), given the values it returned before: a value it has
\* not returned yet. Which one is of no consequence to the transformers, which
\* only embed it in an id, so the draw is represented by the least fresh value.
randomUUID(returned) ==
    CHOOSE u \in UUIDs \ returned : \A w \in UUIDs \ returned : u <= w
Models == {"gemini-2.5-pro"}
Clock == {1700000000}

\* ------------------------------------------------------------------- state
VARIABLES
    chatID,         \* `chatcmpl-${crypto.randomUUID()}`
    creationTime,   \* Math.floor(Date.now() / 1000)
    model,          \* the model argument
    firstChunk,
    toolCallId,
    finishReason,
    toolCallName,
    toolCallIndex,
    usageData,
    uuids,          \* the values crypto.randomUUID() has returned
    events,         \* the chunks written to the OpenAI transformer so far
    out,            \* the frames the OpenAI transformer enqueued so far
    phase,          \* "streaming" until flush has run, then "finalized"
    nativeEvents,   \* the chunks written to the native transformer so far
    nativeOut,      \* the frames the native transformer enqueued so far
    nativePhase,
    peer,           \* the closure, input and output of the other live instance
    active,         \* which of the two instances the variables above belong to
    pumpPc,         \* where the streaming route handler and its pump stand
    iterator,       \* the upstream async iterator: "open", "done", "thrown", "returned"
    pulled,         \* the values iterator.next() has resolved with
    accepted,       \* how many writer.write calls have resolved
    pipe,           \* chunks written and not yet through the native transformer
    writer,         \* the writable side: "open", "closing", "errored"
    response,       \* what the handler returned: "none", "stream", "empty", "error"
    consumer,       \* the reader of the response body: "connected", "cancelled"
    writeFailed,    \* a writer.write call of the pump has rejected
    req,            \* the request (or call) being handled, Null before it arrives
    env,            \* c.env: the configured bindings
    stage,          \* the handler of the chain that runs next, or where it stands
    trace,          \* the handlers and outbound calls that have run, in order
    reply           \* the JSON reply returned to the client, Null if none

openaiVars == <<chatID, creationTime, model, firstChunk, toolCallId,
                finishReason, toolCallName, toolCallIndex, usageData, uuids,
                events, out, phase>>
nativeVars == <<nativeEvents, nativeOut, nativePhase>>
pairVars == <<peer, active>>
pumpVars == <<pumpPc, iterator, pulled, accepted, pipe, writer, response,
              consumer, writeFailed>>
httpVars == <<req, env, stage, trace, reply>>
vars == <<openaiVars, nativeVars, pairVars, pumpVars, httpVars>>

\* --------------------------------------- createOpenAIStreamTransformer
\* The session after construction: ids and time fixed, nothing latched.
InitOpenAI ==
    /\ chatID = Tpl("chatcmpl-", randomUUID({}))
    /\ uuids = {randomUUID({})}
    /\ creationTime \in Clock
    /\ model \in Models
    /\ firstChunk = TRUE
    /\ toolCallId = Null
    /\ finishReason = Null
    /\ toolCallName = Null
    /\ toolCallIndex = 0
    /\ usageData = Undefined
    /\ events = <<>>
    /\ out = <<>>
    /\ phase = "streaming"

\* the role added to every text delta
TextRoleAlways(first) == <<Prop("role", Str("assistant"))>>

\* The properties `if (firstChunk) { delta.role = ...; }` adds after content.
TextRole(first) ==
    IF first THEN <<Prop("role", Str("assistant"))>> ELSE <<>>

\* case "text" with the role written in place of the content on the first chunk
TextDeltaRoleInsteadOfContent(data, first) ==
    IF IsString(data)
    THEN (IF first THEN TextRole(first) ELSE <<Prop("content", data)>>)
    ELSE <<>>

\* case "text" / "thinking_content": the delta built from the payload
TextDelta(data, first) ==
    IF IsString(data) THEN <<Prop("content", data)>> \o TextRole(first) ELSE <<>>

\* case "real_thinking"
RealThinkingDelta(data) ==
    IF IsString(data) THEN <<Prop("reasoning", data)>> ELSE <<>>

\* case "reasoning": delta.reasoning = chunk.data.reasoning, also when the
\* payload passed the guard through toolCode alone
ReasoningDelta(data) ==
    IF isReasoningData(data)
    THEN <<Prop("reasoning", Get(data, "reasoning"))>>
    ELSE <<>>

\* the tool call record of case "tool_code"
ToolCallRecord(toolData, index, id) ==
    Obj(<<Prop("index", Num(index)),
          Prop("id", id),
          Prop("type", Str("function")),
          Prop("function",
               Obj(<<Prop("name", Get(toolData, "name")),
                     Prop("arguments", JSONstringify(Get(toolData, "args")))>>))>>)

\* case "tool_code" announcing the role on every call
ToolRoleAlways(first) ==
    <<Prop("role", Str("assistant")), Prop("content", Null)>>

\* the properties `if (firstChunk)` adds in case "tool_code"
ToolRole(first) ==
    IF first
    THEN <<Prop("role", Str("assistant")), Prop("content", Null)>>
    ELSE <<>>

\* case "tool_code"
ToolCodeDelta(data, first, index, id) ==
    IF isGeminiFunctionCall(data)
    THEN <<Prop("tool_calls", Arr(<<ToolCallRecord(data, index, id)>>))>>
         \o ToolRole(first)
    ELSE <<>>

\* case "tool_code" with the increment forgotten
NextToolCallIndexStuck(index) == index

\* toolCallIndex++ of case "tool_code"
NextToolCallIndex(index) == index + 1

\* case "native_tool" without the structural check
NativeToolDeltaUnchecked(data) == <<Prop("native_tool_calls", Arr(<<data>>))>>

\* case "native_tool"
NativeToolDelta(data) ==
    IF isNativeToolResponse(data)
    THEN <<Prop("native_tool_calls", Arr(<<data>>))>>
    ELSE <<>>

\* case "grounding_metadata"
GroundingDelta(data) ==
    IF Truthy(data) THEN <<Prop("grounding", data)>> ELSE <<>>

\* The delta object at the end of the switch, given the closure's first-chunk
\* flag and tool-call counter.
DeltaFor(chunk, first, index, id) ==
    CASE chunk.type \in {"text", "thinking_content"} ->
            TextDelta(chunk.data, first)
      [] chunk.type = "real_thinking" -> RealThinkingDelta(chunk.data)
      [] chunk.type = "reasoning" -> ReasoningDelta(chunk.data)
      [] chunk.type = "tool_code" ->
            ToolCodeDelta(chunk.data, first, index, id)
      [] chunk.type = "native_tool" -> NativeToolDelta(chunk.data)
      [] chunk.type = "grounding_metadata" -> GroundingDelta(chunk.data)
      [] OTHER -> <<>>

\* The delta object at the end of the switch, for the session as it stands.
DeltaOf(chunk, id) == DeltaFor(chunk, firstChunk, toolCallIndex, id)

\* The cases that leave transform with `return` before the emission.
Returns(chunk) == chunk.type \in {"finish_reason", "usage"}

\* The chunk the emission step builds around a delta.
OpenAIChunk(delta) ==
    Obj(<<Prop("id", chatID),
          Prop("object", Str(OPENAI_CHAT_COMPLETION_OBJECT)),
          Prop("created", Num(creationTime)),
          Prop("model", Str(model)),
          Prop("choices",
               Arr(<<Obj(<<Prop("index", Num(0)),
                           Prop("delta", Obj(delta)),
                           Prop("finish_reason", Null),
                           Prop("logprobs", Null),
                           Prop("matched_stop", Null)>>)>>)),
          Prop("usage", Null)>>)

\* the emission with the enqueue executed twice
EmissionTwice(delta) ==
    IF ObjectKeysLength(Obj(delta)) > 0
    THEN <<SSEFrame(JSONstringify(OpenAIChunk(delta))),
           SSEFrame(JSONstringify(OpenAIChunk(delta)))>>
    ELSE <<>>

\* if (Object.keys(delta).length > 0) controller.enqueue(...)
Emission(delta) ==
    IF ObjectKeysLength(Obj(delta)) > 0
    THEN <<SSEFrame(JSONstringify(OpenAIChunk(delta)))>>
    ELSE <<>>

\* case "finish_reason" keeping the first signal
LatchFinishReasonFirstWins(data, old) ==
    IF IsString(data) /\ old = Null THEN data ELSE old

\* The value latched by case "finish_reason".
LatchFinishReason(data, old) == IF IsString(data) THEN data ELSE old

\* The value latched by case "usage".
LatchUsage(data, old) == IF isUsageData(data) THEN data ELSE old

\* toolCallId = `call_${crypto.randomUUID()}`, drawn anew for every call
NewToolCallId(old, returned) == Tpl("call_", randomUUID(returned))

\* A chunk whose case draws a fresh call id.
DrawsCallId(chunk) == chunk.type = "tool_code" /\ isGeminiFunctionCall(chunk.data)

\* the flag cleared by every chunk with a string payload
BearsContentAnyString(chunk) ==
    \/ IsString(chunk.data)
    \/ DrawsCallId(chunk)

\* A chunk whose case clears firstChunk.
BearsContent(chunk) ==
    \/ chunk.type \in {"text", "thinking_content"} /\ IsString(chunk.data)
    \/ DrawsCallId(chunk)

\* transform with a frame sent for well-formed usage data
TransformFramesSendUsage(chunk, id) ==
    IF chunk.type = "usage" /\ isUsageData(chunk.data)
    THEN Emission(<<Prop("usage", chunk.data)>>)
    ELSE IF Returns(chunk) THEN <<>> ELSE Emission(DeltaOf(chunk, id))

\* The frames one call of transform enqueues: none when the case returned.
TransformFrames(chunk, id) ==
    IF Returns(chunk) THEN <<>> ELSE Emission(DeltaOf(chunk, id))

\* transform(chunk, controller)
Transform(chunk) ==
    /\ phase = "streaming"
    /\ Len(events) < MaxEvents
    /\ LET id == NewToolCallId(toolCallId, uuids) IN
        /\ toolCallId' = IF DrawsCallId(chunk) THEN id ELSE toolCallId
        /\ uuids' = IF DrawsCallId(chunk)
                    THEN uuids \cup {randomUUID(uuids)} ELSE uuids
        /\ out' = out \o TransformFrames(chunk, id)
    /\ toolCallName' = IF DrawsCallId(chunk)
                       THEN Get(chunk.data, "name") ELSE toolCallName
    /\ toolCallIndex' = IF DrawsCallId(chunk)
                        THEN NextToolCallIndex(toolCallIndex) ELSE toolCallIndex
    /\ firstChunk' = IF BearsContent(chunk) THEN FALSE ELSE firstChunk
    /\ finishReason' = IF chunk.type = "finish_reason"
                       THEN LatchFinishReason(chunk.data, finishReason)
                       ELSE finishReason
    /\ usageData' = IF chunk.type = "usage"
                    THEN LatchUsage(chunk.data, usageData)
                    ELSE usageData
    /\ events' = Append(events, chunk)
    /\ UNCHANGED <<chatID, creationTime, model, phase, nativeVars, pairVars, pumpVars, httpVars>>

\* the vocabulary with the RECITATION branch missing
MapFinishReasonNoRecitation(reason) ==
    IF Truthy(reason)
    THEN CASE reason = Str("STOP") -> "stop"
           [] reason = Str("MAX_TOKENS") -> "length"
           [] reason = Str("SAFETY") -> "content_filter"
           [] OTHER -> "stop"
    ELSE "stop"

\* The finish_reason vocabulary of flush.
MapFinishReason(reason) ==
    IF Truthy(reason)
    THEN CASE reason = Str("STOP") -> "stop"
           [] reason = Str("MAX_TOKENS") -> "length"
           [] reason = Str("SAFETY") -> "content_filter"
           [] reason = Str("RECITATION") -> "content_filter"
           [] OTHER -> "stop"
    ELSE "stop"

\* flush with the tool-call override applied only when nothing was buffered
FinalFinishReasonBufferedFirst(reason, callId) ==
    IF Truthy(callId) /\ ~Truthy(reason) THEN "tool_calls" ELSE MapFinishReason(reason)

\* finalFinishReason as flush resolves it
FinalFinishReason(reason, callId) ==
    IF Truthy(callId) THEN "tool_calls" ELSE MapFinishReason(reason)

\* the usage object with the total taken from the prompt count alone
FinalUsagePromptTotal(usage) ==
    Obj(<<Prop("prompt_tokens", Get(usage, "inputTokens")),
          Prop("completion_tokens", Get(usage, "outputTokens")),
          Prop("total_tokens", Get(usage, "inputTokens"))>>)

\* the usage object flush attaches
FinalUsage(usage) ==
    Obj(<<Prop("prompt_tokens", Get(usage, "inputTokens")),
          Prop("completion_tokens", Get(usage, "outputTokens")),
          Prop("total_tokens",
               Num(Get(usage, "inputTokens").n + Get(usage, "outputTokens").n))>>)

\* the usage property of finalChunk, present only if usageData is truthy
FinalUsageProp(usage) ==
    IF Truthy(usage) THEN <<Prop("usage", FinalUsage(usage))>> ELSE <<>>

\* finalChunk, given the closure's latched finish reason, call id and usage
FinalChunkFor(reason, callId, usage) ==
    Obj(<<Prop("id", chatID),
          Prop("object", Str(OPENAI_CHAT_COMPLETION_OBJECT)),
          Prop("created", Num(creationTime)),
          Prop("model", Str(model)),
          Prop("choices",
               Arr(<<Obj(<<Prop("index", Num(0)),
                           Prop("delta", Obj(<<>>)),
                           Prop("finish_reason",
                                Str(FinalFinishReason(reason, callId)))>>)>>))>>
        \o FinalUsageProp(usage))

\* finalChunk with an id of its own
FinalChunkFreshId ==
    Obj(<<Prop("id", Tpl("chatcmpl-", randomUUID(uuids))),
          Prop("object", Str(OPENAI_CHAT_COMPLETION_OBJECT)),
          Prop("created", Num(creationTime)),
          Prop("model", Str(model)),
          Prop("choices",
               Arr(<<Obj(<<Prop("index", Num(0)),
                           Prop("delta", Obj(<<>>)),
                           Prop("finish_reason",
                                Str(FinalFinishReason(finishReason, toolCallId)))>>)>>))>>
        \o FinalUsageProp(usageData))

\* finalChunk, for the session as it stands
FinalChunk == FinalChunkFor(finishReason, toolCallId, usageData)

\* flush without the sentinel line
FlushFramesNoSentinel == <<SSEFrame(JSONstringify(FinalChunk))>>

\* the frames flush enqueues
FlushFrames == <<SSEFrame(JSONstringify(FinalChunk)), DoneFrame>>

\* flush after which the stream still takes chunks and can be flushed again
FlushStaysOpen ==
    /\ phase = "streaming"
    /\ out' = out \o FlushFrames
    /\ UNCHANGED <<chatID, creationTime, model, firstChunk, toolCallId,
                   finishReason, toolCallName, toolCallIndex, usageData,
                   uuids, events, phase, nativeVars, pairVars, pumpVars, httpVars>>

\* flush(controller): runs once, when the writable side is closed
Flush ==
    /\ phase = "streaming"
    /\ out' = out \o FlushFrames
    /\ phase' = "finalized"
    /\ UNCHANGED <<chatID, creationTime, model, firstChunk, toolCallId,
                   finishReason, toolCallName, toolCallIndex, usageData,
                   uuids, events, nativeVars, pairVars, pumpVars, httpVars>>

\* ------------------------------------------- two live transformer instances
\* Longest event sequence written to each of two concurrent instances.
MaxPairEvents == 2

\* The events written to two concurrent instances.
PairChunks ==
    {Chunk("text", Str("a")), Chunk("tool_code", FunctionCallF),
     Chunk("finish_reason", Str("MAX_TOKENS")), Chunk("usage", UsageA)}

\* The `let`/`const` bindings of one call of createOpenAIStreamTransformer,
\* with what was written to and enqueued by the stream it returned.
Closure ==
    [chatID |-> chatID, creationTime |-> creationTime, model |-> model,
     firstChunk |-> firstChunk, toolCallId |-> toolCallId,
     finishReason |-> finishReason, toolCallName |-> toolCallName,
     toolCallIndex |-> toolCallIndex, usageData |-> usageData,
     events |-> events, out |-> out, phase |-> phase]

\* No second instance has been created.
InitPair == peer = Null /\ active = 1

\* createOpenAIStreamTransformer(model) called for another response while the
\* first instance is live: bindings of its own; crypto.randomUUID is global.
NewSession(m, now) ==
    /\ peer = Null
    /\ peer' = [chatID |-> Tpl("chatcmpl-", randomUUID(uuids)),
                creationTime |-> now, model |-> m,
                firstChunk |-> TRUE, toolCallId |-> Null,
                finishReason |-> Null, toolCallName |-> Null,
                toolCallIndex |-> 0, usageData |-> Undefined,
                events |-> <<>>, out |-> <<>>, phase |-> "streaming"]
    /\ uuids' = uuids \cup {randomUUID(uuids)}
    /\ UNCHANGED <<chatID, creationTime, model, firstChunk, toolCallId,
                   finishReason, toolCallName, toolCallIndex, usageData,
                   events, out, phase, active, nativeVars, pumpVars, httpVars>>

\* the bindings with firstChunk declared at module level, one for all instances
SwitchSharedFirstChunk ==
    /\ peer # Null
    /\ peer' = Closure
    /\ chatID' = peer.chatID
    /\ creationTime' = peer.creationTime
    /\ model' = peer.model
    /\ firstChunk' = firstChunk
    /\ toolCallId' = peer.toolCallId
    /\ finishReason' = peer.finishReason
    /\ toolCallName' = peer.toolCallName
    /\ toolCallIndex' = peer.toolCallIndex
    /\ usageData' = peer.usageData
    /\ events' = peer.events
    /\ out' = peer.out
    /\ phase' = peer.phase
    /\ active' = 3 - active
    /\ UNCHANGED <<uuids, nativeVars, pumpVars, httpVars>>

\* The next callback to run belongs to the other instance: transform and
\* flush then see that instance's bindings.
Switch ==
    /\ peer # Null
    /\ peer' = Closure
    /\ chatID' = peer.chatID
    /\ creationTime' = peer.creationTime
    /\ model' = peer.model
    /\ firstChunk' = peer.firstChunk
    /\ toolCallId' = peer.toolCallId
    /\ finishReason' = peer.finishReason
    /\ toolCallName' = peer.toolCallName
    /\ toolCallIndex' = peer.toolCallIndex
    /\ usageData' = peer.usageData
    /\ events' = peer.events
    /\ out' = peer.out
    /\ phase' = peer.phase
    /\ active' = 3 - active
    /\ UNCHANGED <<uuids, nativeVars, pumpVars, httpVars>>

\* transform of the instance whose callback runs
PairTransform(chunk) == Len(events) < MaxPairEvents /\ Transform(chunk)

\* ---------------------------------- createGeminiNativeStreamTransformer
InitNative ==
    /\ nativeEvents = <<>>
    /\ nativeOut = <<>>
    /\ nativePhase = "streaming"

\* the frames transform enqueues for one chunk
NativeEmission(chunk) ==
    IF chunk.type = "gemini_native" /\ isGeminiNativeResponse(chunk.data)
    THEN <<SSEFrame(JSONstringify(chunk.data))>>
    ELSE <<>>

\* transform(chunk, controller)
NativeTransform(chunk) ==
    /\ nativePhase = "streaming"
    /\ Len(nativeEvents) < MaxEvents
    /\ nativeOut' = nativeOut \o NativeEmission(chunk)
    /\ nativeEvents' = Append(nativeEvents, chunk)
    /\ UNCHANGED <<nativePhase, openaiVars, pairVars, pumpVars, httpVars>>

\* the native flush with the commented-out [DONE] line left in
NativeFlushFramesWithSentinel == <<DoneFrame>>

\* the frames flush enqueues: none, the [DONE] line is commented out
NativeFlushFrames == <<>>

\* flush(controller)
NativeFlush ==
    /\ nativePhase = "streaming"
    /\ nativeOut' = nativeOut \o NativeFlushFrames
    /\ nativePhase' = "finalized"
    /\ UNCHANGED <<nativeEvents, openaiVars, pairVars, pumpVars, httpVars>>

\* ------------------------- routes/gemini.ts: the native streaming route
\* Chunks the streams between writer and native transformer hold without a
\* read from the response body: the default high-water mark of the writable
\* side the identity TransformStream is piped into.
PipeCapacity == 1

\* The pieces the messages of upstream errors are put together from.
ErrorWords ==
    {<<>>, <<"4", "2", "9">>, <<"4", "0", "1">>, <<"4", "0", "3">>,
     <<"4", "0", "4">>, <<"5", "0", "0">>, <<"4">>, <<"2", "9">>, <<"0", "4">>}
\* e.message of the errors the upstream client throws, as characters
ErrorMessages == {a \o b : a \in ErrorWords, b \in ErrorWords}

\* s.includes(pat)
Includes(s, pat) ==
    \E i \in 1..(Len(s) - Len(pat) + 1) : SubSeq(s, i, i + Len(pat) - 1) = pat

\* c.json({error: {code, message, status}}, code)
GeminiError(code, message, status) ==
    [status |-> code,
     body |-> Obj(<<Prop("error",
                Obj(<<Prop("code", Num(code)),
                      Prop("message", message),
                      Prop("status", Str(status))>>))>>)]

\* the reply for a first result that is done
EmptyResponseError == GeminiError(500, Str("Empty response from Gemini API"), "INTERNAL")

\* the catch with the test for 401 and 403 ahead of the test for 429
InitialStreamErrorAuthFirst(errorMessage) ==
    IF Includes(errorMessage, <<"4", "0", "1">>) \/ Includes(errorMessage, <<"4", "0", "3">>)
    THEN GeminiError(401, Text(errorMessage), "UNAUTHENTICATED")
    ELSE IF Includes(errorMessage, <<"4", "2", "9">>)
    THEN GeminiError(429, Text(errorMessage), "RESOURCE_EXHAUSTED")
    ELSE IF Includes(errorMessage, <<"4", "0", "4">>)
    THEN GeminiError(404, Text(errorMessage), "NOT_FOUND")
    ELSE GeminiError(500, Text(errorMessage), "INTERNAL")

\* catch (e) of the streaming branch: the reply for an error thrown before
\* the Response was returned.
InitialStreamError(errorMessage) ==
    IF Includes(errorMessage, <<"4", "2", "9">>)
    THEN GeminiError(429, Text(errorMessage), "RESOURCE_EXHAUSTED")
    ELSE IF Includes(errorMessage, <<"4", "0", "1">>) \/ Includes(errorMessage, <<"4", "0", "3">>)
    THEN GeminiError(401, Text(errorMessage), "UNAUTHENTICATED")
    ELSE IF Includes(errorMessage, <<"4", "0", "4">>)
    THEN GeminiError(404, Text(errorMessage), "NOT_FOUND")
    ELSE GeminiError(500, Text(errorMessage), "INTERNAL")

\* What an `await iterator.next()` can resolve or reject with.
IteratorResults ==
    {[kind |-> "value", value |-> c] : c \in NativeChunks}
    \cup {[kind |-> "done"]}
    \cup {[kind |-> "throw", message |-> m] : m \in ErrorMessages}

\* The handler has reached `await iterator.next()` for the first chunk.
InitPump ==
    /\ pumpPc = "first"
    /\ iterator = "open"
    /\ pulled = <<>>
    /\ accepted = 0
    /\ pipe = <<>>
    /\ writer = "open"
    /\ response = "none"
    /\ consumer = "connected"
    /\ writeFailed = FALSE

\* The values the iterator has given out and no writer.write has taken yet.
Unwritten == Len(pulled) - accepted

\* the handler creating the stream and starting the pump before the first
\* result is looked at: a rejection is met by the pump's catch
FirstNextNoGate(r) ==
    /\ pumpPc = "first"
    /\ r.kind = "value" => Len(pulled) < MaxEvents
    /\ pulled' = IF r.kind = "value" THEN Append(pulled, r.value) ELSE pulled
    /\ iterator' = CASE r.kind = "done" -> "done"
                     [] r.kind = "throw" -> "thrown"
                     [] OTHER -> iterator
    /\ response' = IF r.kind = "done" THEN "empty" ELSE "stream"
    /\ reply' = IF r.kind = "done" THEN EmptyResponseError ELSE reply
    /\ trace' = IF r.kind = "throw"
                THEN Append(trace, [op |-> "rejected", message |-> r.message])
                ELSE trace
    /\ pumpPc' = CASE r.kind = "done" -> "done"
                   [] r.kind = "throw" -> "catch"
                   [] OTHER -> "firstWrite"
    /\ UNCHANGED <<accepted, pipe, writer, consumer, writeFailed,
                   openaiVars, nativeVars, pairVars, req, env, stage>>

\* the handler without the test of firstResult.done: the stream is created
\* and closed
FirstNextStreamsEmpty(r) ==
    /\ pumpPc = "first"
    /\ r.kind = "value" => Len(pulled) < MaxEvents
    /\ pulled' = IF r.kind = "value" THEN Append(pulled, r.value) ELSE pulled
    /\ iterator' = CASE r.kind = "done" -> "done"
                     [] r.kind = "throw" -> "thrown"
                     [] OTHER -> iterator
    /\ response' = CASE r.kind = "done" -> "stream"
                     [] r.kind = "throw" -> "error"
                     [] OTHER -> response
    /\ reply' = IF r.kind = "throw" THEN InitialStreamError(r.message) ELSE reply
    /\ trace' = IF r.kind = "throw"
                THEN Append(trace, [op |-> "rejected", message |-> r.message])
                ELSE trace
    /\ pumpPc' = CASE r.kind = "done" -> "close"
                   [] r.kind = "throw" -> "done"
                   [] OTHER -> "firstWrite"
    /\ UNCHANGED <<accepted, pipe, writer, consumer, writeFailed,
                   openaiVars, nativeVars, pairVars, req, env, stage>>

\* const firstResult = await iterator.next(): a done iterator is answered
\* with the "Empty response" error, a rejection with the catch's JSON error;
\* the rejection is kept in the trace.
FirstNext(r) ==
    /\ pumpPc = "first"
    /\ r.kind = "value" => Len(pulled) < MaxEvents
    /\ pulled' = IF r.kind = "value" THEN Append(pulled, r.value) ELSE pulled
    /\ iterator' = CASE r.kind = "done" -> "done"
                     [] r.kind = "throw" -> "thrown"
                     [] OTHER -> iterator
    /\ response' = CASE r.kind = "done" -> "empty"
                     [] r.kind = "throw" -> "error"
                     [] OTHER -> response
    /\ reply' = CASE r.kind = "done" -> EmptyResponseError
                  [] r.kind = "throw" -> InitialStreamError(r.message)
                  [] OTHER -> reply
    /\ trace' = IF r.kind = "throw"
                THEN Append(trace, [op |-> "rejected", message |-> r.message])
                ELSE trace
    /\ pumpPc' = IF r.kind = "value" THEN "firstWrite" ELSE "done"
    /\ UNCHANGED <<accepted, pipe, writer, consumer, writeFailed,
                   openaiVars, nativeVars, pairVars, req, env, stage>>

\* the first write held back until the response body has been read from
FirstWriteAwaitsReader ==
    /\ pumpPc = "firstWrite"
    /\ nativeEvents # <<>>
    /\ pipe' = Append(pipe, pulled[accepted + 1])
    /\ accepted' = accepted + 1
    /\ response' = "stream"
    /\ pumpPc' = "next"
    /\ UNCHANGED <<iterator, pulled, writer, consumer, writeFailed,
                   openaiVars, nativeVars, pairVars, httpVars>>

\* await writer.write(firstResult.value) resolves; the pump is started and
\* runs to its first `await iterator.next()`; the Response is returned.
FirstWrite ==
    /\ pumpPc = "firstWrite"
    /\ Len(pipe) < PipeCapacity
    /\ pipe' = Append(pipe, pulled[accepted + 1])
    /\ accepted' = accepted + 1
    /\ response' = "stream"
    /\ pumpPc' = "next"
    /\ UNCHANGED <<iterator, pulled, writer, consumer, writeFailed,
                   openaiVars, nativeVars, pairVars, httpVars>>

\* the loop calling iterator.next() without awaiting writer.write
PumpAtNextOrWrite == pumpPc \in {"next", "write"}

\* The pump stands at `await iterator.next()`.
PumpAtNext == pumpPc = "next"

\* result = await iterator.next() in the pump: a value enters the loop body,
\* done leaves the loop, a rejection enters the catch.
PumpNext(r) ==
    /\ PumpAtNext
    /\ iterator = "open"
    /\ r.kind = "value" => Len(pulled) < MaxEvents
    /\ pulled' = IF r.kind = "value" THEN Append(pulled, r.value) ELSE pulled
    /\ iterator' = CASE r.kind = "done" -> "done"
                     [] r.kind = "throw" -> "thrown"
                     [] OTHER -> iterator
    /\ pumpPc' = CASE r.kind = "done" -> "close"
                   [] r.kind = "throw" -> "catch"
                   [] OTHER -> "write"
    /\ UNCHANGED <<accepted, pipe, writer, response, consumer, writeFailed,
                   openaiVars, nativeVars, pairVars, httpVars>>

\* await writer.write(result.value) resolves: the stream had room for it.
WriteAccepted ==
    /\ pumpPc = "write"
    /\ writer = "open"
    /\ Len(pipe) < PipeCapacity
    /\ pipe' = Append(pipe, pulled[accepted + 1])
    /\ accepted' = accepted + 1
    /\ pumpPc' = "next"
    /\ UNCHANGED <<iterator, pulled, writer, response, consumer, writeFailed,
                   openaiVars, nativeVars, pairVars, httpVars>>

\* the catch resuming the loop after a rejected write
WriteFailedKeepsPulling ==
    /\ pumpPc = "write"
    /\ writer = "errored"
    /\ writeFailed' = TRUE
    /\ accepted' = accepted + 1
    /\ pumpPc' = "next"
    /\ UNCHANGED <<iterator, pulled, pipe, writer, response, consumer,
                   openaiVars, nativeVars, pairVars, httpVars>>

\* await writer.write(result.value) rejects, the stream having been errored
\* by the cancellation of the response body: control passes to the catch.
WriteFailed ==
    /\ pumpPc = "write"
    /\ writer = "errored"
    /\ writeFailed' = TRUE
    /\ pumpPc' = "catch"
    /\ UNCHANGED <<iterator, pulled, accepted, pipe, writer, response,
                   consumer, openaiVars, nativeVars, pairVars, httpVars>>

\* await writer.close() after the loop: on an errored stream it rejects, and
\* that rejection too is caught by the catch.
PumpClose ==
    /\ pumpPc = "close"
    /\ writer' = IF writer = "open" THEN "closing" ELSE writer
    /\ pumpPc' = IF writer = "open" THEN "done" ELSE "catch"
    /\ UNCHANGED <<iterator, pulled, accepted, pipe, response, consumer,
                   writeFailed, openaiVars, nativeVars, pairVars, httpVars>>

\* the catch aborting the writer with the error instead of closing it
PumpCatchAborts ==
    /\ pumpPc = "catch"
    /\ writer' = "errored"
    /\ pipe' = <<>>
    /\ pumpPc' = "done"
    /\ UNCHANGED <<iterator, pulled, accepted, response, consumer,
                   writeFailed, openaiVars, nativeVars, pairVars, httpVars>>

\* catch (streamError): console.error, then await writer.close(), whose
\* rejection on an errored stream nothing handles. The pump ends here.
PumpCatch ==
    /\ pumpPc = "catch"
    /\ writer' = IF writer = "open" THEN "closing" ELSE writer
    /\ pumpPc' = "done"
    /\ UNCHANGED <<iterator, pulled, accepted, pipe, response, consumer,
                   writeFailed, openaiVars, nativeVars, pairVars, httpVars>>

\* readable.pipeThrough(geminiTransformer): a read of the response body lets
\* the oldest written chunk through the native transformer's transform.
PipeTransform ==
    /\ response = "stream"
    /\ consumer = "connected"
    /\ pipe # <<>>
    /\ nativePhase = "streaming"
    /\ nativeOut' = nativeOut \o NativeEmission(Head(pipe))
    /\ nativeEvents' = Append(nativeEvents, Head(pipe))
    /\ pipe' = Tail(pipe)
    /\ UNCHANGED <<pumpPc, iterator, pulled, accepted, writer, response,
                   consumer, writeFailed, nativePhase, openaiVars, pairVars, httpVars>>

\* The close of the writer reaches the native transformer once every written
\* chunk is through: its flush runs and the response body ends.
PipeFlush ==
    /\ writer = "closing"
    /\ consumer = "connected"
    /\ pipe = <<>>
    /\ nativePhase = "streaming"
    /\ nativeOut' = nativeOut \o NativeFlushFrames
    /\ nativePhase' = "finalized"
    /\ UNCHANGED <<pumpVars, nativeEvents, openaiVars, pairVars, httpVars>>

\* The client disconnects: the response body (geminiStream) is cancelled,
\* which errors the piped streams back to the writer and discards what
\* they hold. Nothing in the handler observes it but a later writer call.
ConsumerCancel ==
    /\ response = "stream"
    /\ consumer = "connected"
    /\ nativePhase = "streaming"
    /\ consumer' = "cancelled"
    /\ writer' = "errored"
    /\ pipe' = <<>>
    /\ UNCHANGED <<pumpPc, iterator, pulled, accepted, response, writeFailed,
                   openaiVars, nativeVars, pairVars, httpVars>>

\* ------------------------------------------------ requests and their replies
\* No request has arrived.
InitHttp ==
    /\ req = Null
    /\ env = Null
    /\ stage = "idle"
    /\ trace = <<>>
    /\ reply = Null

\* ------------------------------------------ the API-key middlewares
\* !v for a value that is a string or undefined
Falsy(v) == v.t = "undefined" \/ v.c = <<>>

\* \s of the regular expression, for the characters headers are built from
IsSpace(ch) == ch \in {" ", "\t"}

Bearer == <<"B", "e", "a", "r", "e", "r">>

\* The number of leading characters of s matched by a greedy \s+ .
RECURSIVE SpaceRun(_)
SpaceRun(s) ==
    IF s # <<>> /\ IsSpace(Head(s)) THEN 1 + SpaceRun(Tail(s)) ELSE 0

\* authHeader.match(/^Bearer\s+(.+)$/): match[1], or null without a match.
\* \s+ takes the whole run of blanks and gives one back when nothing else
\* is left for (.+).
BearerMatch(header) ==
    LET n == Len(Bearer)
        rest == SubSeq(header, n + 1, Len(header))
        k == SpaceRun(rest)
    IN  IF Len(header) > n /\ SubSeq(header, 1, n) = Bearer /\ k >= 1
        THEN IF k < Len(rest) THEN Text(SubSeq(rest, k + 1, Len(rest)))
             ELSE IF k >= 2 THEN Text(<<rest[k]>>)
             ELSE Null
        ELSE Null

\* c.json({error: {...}}, 401) of openAIApiKeyAuth
OpenAIAuthError(message, code) ==
    [status |-> 401,
     body |-> Obj(<<Prop("error",
                Obj(<<Prop("message", Str(message)),
                      Prop("type", Str("authentication_error")),
                      Prop("code", Str(code))>>))>>)]

\* c.json({error: {...}}, 401) of geminiApiKeyAuth
GeminiAuthError(message) ==
    [status |-> 401,
     body |-> Obj(<<Prop("error",
                Obj(<<Prop("message", Str(message)),
                      Prop("code", Num(401)),
                      Prop("status", Str("UNAUTHENTICATED"))>>))>>)]

\* publicEndpoints.some((endpoint) => c.req.path === endpoint): a path is
\* kept as its segments, "/" being the empty sequence.
IsPublicEndpoint(path) == path \in {<<>>, <<"health">>}

\* openAIApiKeyAuth without the comparison of the token with the key
OpenAIApiKeyAuthAnyToken(r, e) ==
    IF IsPublicEndpoint(r.path) \/ Falsy(e.OPENAI_API_KEY) THEN Null
    ELSE IF Falsy(r.authorization)
    THEN OpenAIAuthError("Missing Authorization header", "missing_authorization")
    ELSE IF BearerMatch(r.authorization.c) = Null
    THEN OpenAIAuthError("Invalid Authorization header format. Expected: Bearer <token>",
                         "invalid_authorization_format")
    ELSE Null

\* openAIApiKeyAuth(c, next): the 401 reply it returns, or Null when it
\* awaits next().
OpenAIApiKeyAuth(r, e) ==
    IF IsPublicEndpoint(r.path) \/ Falsy(e.OPENAI_API_KEY) THEN Null
    ELSE IF Falsy(r.authorization)
    THEN OpenAIAuthError("Missing Authorization header", "missing_authorization")
    ELSE IF BearerMatch(r.authorization.c) = Null
    THEN OpenAIAuthError("Invalid Authorization header format. Expected: Bearer <token>",
                         "invalid_authorization_format")
    ELSE IF BearerMatch(r.authorization.c) # e.OPENAI_API_KEY
    THEN OpenAIAuthError("Invalid API key", "invalid_api_key")
    ELSE Null

\* the key taken from the query parameter before the header
ProvidedGeminiKeyQueryFirst(r) ==
    IF ~Falsy(r.queryKey) THEN r.queryKey
    ELSE IF ~Falsy(r.xGoogApiKey) THEN r.xGoogApiKey
    ELSE IF ~Falsy(r.authorization) /\ BearerMatch(r.authorization.c) # Null
    THEN BearerMatch(r.authorization.c)
    ELSE Undefined

\* providedKey of geminiApiKeyAuth: the x-goog-api-key header, if falsy the
\* key query parameter, if falsy the Bearer token of Authorization.
ProvidedGeminiKey(r) ==
    IF ~Falsy(r.xGoogApiKey) THEN r.xGoogApiKey
    ELSE IF ~Falsy(r.queryKey) THEN r.queryKey
    ELSE IF ~Falsy(r.authorization) /\ BearerMatch(r.authorization.c) # Null
    THEN BearerMatch(r.authorization.c)
    ELSE Undefined

\* geminiApiKeyAuth(c, next): the 401 reply it returns, or Null when it
\* awaits next().
GeminiApiKeyAuth(r, e) ==
    IF IsPublicEndpoint(r.path) \/ Falsy(e.GEMINI_API_KEY) THEN Null
    ELSE IF Falsy(ProvidedGeminiKey(r))
    THEN GeminiAuthError("Missing API key. Provide via 'x-goog-api-key' header or '?key=' query parameter.")
    ELSE IF ProvidedGeminiKey(r) # e.GEMINI_API_KEY
    THEN GeminiAuthError("Invalid API key")
    ELSE Null

\* ------------------------------------------------- index.ts: the app chain
Key1 == <<"k", "1">>
Key2 == <<"k", "2">>

\* Authorization header values: none, empty, the Bearer form with one and
\* with two blanks, a wrong token, and forms the expression does not match.
AuthorizationHeaders ==
    {Undefined, Text(<<>>),
     Text(Bearer \o <<" ">> \o Key1),
     Text(Bearer \o <<" ", "\t">> \o Key1),
     Text(Bearer \o <<" ">> \o Key2),
     Text(Bearer \o Key1),
     Text(Bearer \o <<" ">>),
     Text(<<"b", "e", "a", "r", "e", "r", " ">> \o Key1),
     Text(Key1)}

KeyValues == {Undefined, Text(<<>>), Text(Key1), Text(Key2)}

\* The requests that arrive: method, path segments and the three places a
\* key can be given in.
Requests ==
    [method : {"GET", "POST", "OPTIONS"},
     path : {<<>>, <<"health">>, <<"v1", "models">>, <<"gemini", "models">>, <<"ip">>},
     authorization : AuthorizationHeaders,
     xGoogApiKey : KeyValues,
     queryKey : KeyValues]

\* c.env as far as the middlewares read it
Bindings ==
    [OPENAI_API_KEY : {Undefined, Text(<<>>), Text(Key1)},
     GEMINI_API_KEY : {Undefined, Text(<<>>), Text(Key1)}]

\* app.use("/v1/*", ...) and app.use("/gemini/*", ...)
MatchesV1(path) == path # <<>> /\ path[1] = "v1"
MatchesGemini(path) == path # <<>> /\ path[1] = "gemini"

\* The handler next() of the CORS middleware reaches: the first registered
\* after it whose pattern matches the path.
AfterCors(path) ==
    IF MatchesV1(path) THEN "openAIApiKeyAuth"
    ELSE IF MatchesGemini(path) THEN "geminiApiKeyAuth"
    ELSE "route"

\* A request reaches app.fetch.
Arrive(r, e) ==
    /\ stage = "idle"
    /\ req' = r
    /\ env' = e
    /\ stage' = "loggingMiddleware"
    /\ UNCHANGED <<trace, reply, openaiVars, nativeVars, pairVars, pumpVars>>

\* app.use("*", loggingMiddleware): it passes every request on.
LoggingMiddleware ==
    /\ stage = "loggingMiddleware"
    /\ trace' = Append(trace, "loggingMiddleware")
    /\ stage' = "cors"
    /\ UNCHANGED <<req, env, reply, openaiVars, nativeVars, pairVars, pumpVars>>

\* the CORS middleware falling through to next() for a preflight request
CorsAlwaysNext ==
    /\ stage = "cors"
    /\ trace' = Append(trace, "cors")
    /\ reply' = IF req.method = "OPTIONS" THEN [status |-> 204, body |-> Null] ELSE reply
    /\ stage' = AfterCors(req.path)
    /\ UNCHANGED <<req, env, openaiVars, nativeVars, pairVars, pumpVars>>

\* app.use("*", async (c, next) => {...}): the Access-Control headers are
\* set on the context, a preflight request is answered with 204 and an empty
\* body, any other request is passed on.
Cors ==
    /\ stage = "cors"
    /\ trace' = Append(trace, "cors")
    /\ reply' = IF req.method = "OPTIONS" THEN [status |-> 204, body |-> Null] ELSE reply
    /\ stage' = IF req.method = "OPTIONS" THEN "done" ELSE AfterCors(req.path)
    /\ UNCHANGED <<req, env, openaiVars, nativeVars, pairVars, pumpVars>>

\* app.use("/v1/*", openAIApiKeyAuth)
OpenAIAuth ==
    /\ stage = "openAIApiKeyAuth"
    /\ trace' = Append(trace, "openAIApiKeyAuth")
    /\ reply' = OpenAIApiKeyAuth(req, env)
    /\ stage' = IF OpenAIApiKeyAuth(req, env) = Null THEN "route" ELSE "done"
    /\ UNCHANGED <<req, env, openaiVars, nativeVars, pairVars, pumpVars>>

\* app.use("/gemini/*", geminiApiKeyAuth)
GeminiAuth ==
    /\ stage = "geminiApiKeyAuth"
    /\ trace' = Append(trace, "geminiApiKeyAuth")
    /\ reply' = GeminiApiKeyAuth(req, env)
    /\ stage' = IF GeminiApiKeyAuth(req, env) = Null THEN "route" ELSE "done"
    /\ UNCHANGED <<req, env, openaiVars, nativeVars, pairVars, pumpVars>>

\* app.route(...), app.get(...): the route handler the path selects runs;
\* what it replies is not followed here.
Route ==
    /\ stage = "route"
    /\ trace' = Append(trace, "route")
    /\ stage' = "done"
    /\ UNCHANGED <<req, env, reply, openaiVars, nativeVars, pairVars, pumpVars>>

\* ------------------------------------------------ proxy-fetch.ts: proxyFetch
\* The url and proxyUrl arguments: two URLs and a string new URL() rejects.
Urls == {"https://cloudcode-pa.googleapis.com/v1internal", "http://127.0.0.1:8080"}
NotAUrl == "proxy"
\* The init arguments.
Inits == {Obj(<<>>),
          Obj(<<Prop("method", Str("POST")), Prop("body", Str("{}"))>>)}
\* What fetch resolves or rejects with.
FetchResults == {[status |-> 200], [status |-> 503], [rejected |-> "TypeError: fetch failed"]}
\* The status codes a proxied response text is parsed to; 0 stands for the
\* NaN of a text without a status line.
ParsedStatuses == {200, 404, 0}

\* fetch(url, init) as an entry of the trace
FetchCall(url, init) == [op |-> "fetch", url |-> url, init |-> init]
\* One step of the tunnel and how it went
TunnelStep(op, ok) == [op |-> op, ok |-> ok]

\* proxyFetch(url, init, proxyUrl) is called.
ProxyFetchCall(url, init, proxyUrl) ==
    /\ stage = "idle"
    /\ req' = [url |-> url, init |-> init, proxyUrl |-> proxyUrl]
    /\ stage' = "proxyFetch"
    /\ UNCHANGED <<env, trace, reply, openaiVars, nativeVars, pairVars, pumpVars>>

\* if (!proxyUrl) return fetch(url, init); otherwise both URLs are parsed,
\* outside the try: new URL() throwing rejects the call.
ProxyFetchEntry ==
    /\ stage = "proxyFetch"
    /\ IF ~Truthy(req.proxyUrl)
       THEN /\ trace' = Append(trace, FetchCall(req.url, req.init))
            /\ stage' = "fetch"
            /\ reply' = reply
       ELSE IF req.url = NotAUrl \/ req.proxyUrl.s = NotAUrl
       THEN /\ reply' = [rejected |-> "TypeError: Invalid URL"]
            /\ stage' = "done"
            /\ trace' = trace
       ELSE /\ stage' = "connect"
            /\ UNCHANGED <<trace, reply>>
    /\ UNCHANGED <<req, env, openaiVars, nativeVars, pairVars, pumpVars>>

\* A step of the tunnel that either succeeds and leads to the next step or
\* throws into the catch.
Tunnel(at, ok, then) ==
    /\ trace' = Append(trace, TunnelStep(at, ok))
    /\ stage' = IF ok THEN then ELSE "catch"
    /\ UNCHANGED <<req, env, reply, openaiVars, nativeVars, pairVars, pumpVars>>

\* const socket = connect({hostname, port}) and the writer and reader on it
Connect(ok) == stage = "connect" /\ Tunnel("connect", ok, "writeConnect")
\* await writer.write(encode(connectRequest))
WriteConnect(ok) == stage = "writeConnect" /\ Tunnel("writeConnect", ok, "readConnect")

\* The texts a proxy sends in reply to CONNECT, as pieces: the version, the
\* characters of the status code, the reason, the line ends.
ConnectReplyTexts ==
    {<<"HTTP/1.1", " ", "2", "0", "0", " ", "Connection established", "\r\n", "\r\n">>,
     <<"HTTP/1.0", " ", "2", "0", "0", " ", "OK", "\r\n", "\r\n">>,
     <<"HTTP/1.1", " ", "4", "0", "7", " ", "Proxy Authentication Required", "\r\n", "\r\n">>,
     <<"HTTP/1.1", " ", "2", "0", "0", " ", "Connection established", "\r\n">>,
     <<"HTTP/1.1", " ", "2", "0">>,
     <<"HTTP/1.0", " ", "5", "0", "2", " ", "Bad Gateway", "\r\n">>,
     <<>>}

\* responseText.includes("\r\n\r\n")
HasBlankLine(text) ==
    \E i \in 1..(Len(text) - 1) : text[i] = "\r\n" /\ text[i + 1] = "\r\n"

\* responseText.startsWith(prefix)
StartsWith(text, prefix) ==
    Len(text) >= Len(prefix) /\ SubSeq(text, 1, Len(prefix)) = prefix

\* What the loop over reader.read() leaves: it ends with the blank line in
\* responseText, or before it when a read returns done.
ConnectReplies ==
    {[text |-> t, done |-> ~HasBlankLine(t)] : t \in ConnectReplyTexts}

\* the loop over reader.read() up to the blank line or the end of the
\* stream: a rejected read throws
ReadConnect(ok, r) ==
    /\ stage = "readConnect"
    /\ trace' = Append(trace,
            IF ok THEN [op |-> "readConnect", ok |-> TRUE, text |-> r.text, done |-> r.done]
            ELSE TunnelStep("readConnect", FALSE))
    /\ stage' = IF ok THEN "checkConnect" ELSE "catch"
    /\ UNCHANGED <<req, env, reply, openaiVars, nativeVars, pairVars, pumpVars>>

\* !(!responseText.startsWith("HTTP/1.1 200") &&
\*   !responseText.startsWith("HTTP/1.0 200"))
ConnectOk(responseText) ==
    \/ StartsWith(responseText, <<"HTTP/1.1", " ", "2", "0", "0">>)
    \/ StartsWith(responseText, <<"HTTP/1.0", " ", "2", "0", "0">>)

\* if the reply starts with neither "HTTP/1.1 200" nor "HTTP/1.0 200": throw
CheckConnect ==
    /\ stage = "checkConnect"
    /\ Tunnel("checkConnect", ConnectOk(trace[Len(trace)].text), "startTls")
\* await socket.startTls({hostname})
StartTls(ok) == stage = "startTls" /\ Tunnel("startTls", ok, "writeRequest")
\* await secureWriter.write(encode(httpRequest))
WriteRequest(ok) == stage = "writeRequest" /\ Tunnel("writeRequest", ok, "readResponse")

\* The loop over reader.read() to the end and the parsing of what was read:
\* a rejected read throws, and so does new Response for a status that is not
\* a status code; otherwise the Response is returned.
ReadResponse(ok, status) ==
    /\ stage = "readResponse"
    /\ trace' = Append(trace, TunnelStep("readResponse", ok /\ status # 0))
    /\ stage' = IF ok /\ status # 0 THEN "done" ELSE "catch"
    /\ reply' = IF ok /\ status # 0 THEN [status |-> status] ELSE reply
    /\ UNCHANGED <<req, env, openaiVars, nativeVars, pairVars, pumpVars>>

\* the catch logging the error and throwing it on
ProxyCatchRethrows ==
    /\ stage = "catch"
    /\ reply' = [rejected |-> "Proxy connection failed"]
    /\ stage' = "done"
    /\ UNCHANGED <<req, env, trace, openaiVars, nativeVars, pairVars, pumpVars>>

\* catch (error): console.error, console.log, return fetch(url, init)
ProxyCatch ==
    /\ stage = "catch"
    /\ trace' = Append(trace, FetchCall(req.url, req.init))
    /\ stage' = "fetch"
    /\ UNCHANGED <<req, env, reply, openaiVars, nativeVars, pairVars, pumpVars>>

\* The promise of fetch settles and is what proxyFetch returns.
FetchSettles(result) ==
    /\ stage = "fetch"
    /\ trace' = Append(trace, [op |-> "settled", result |-> result])
    /\ reply' = result
    /\ stage' = "done"
    /\ UNCHANGED <<req, env, openaiVars, nativeVars, pairVars, pumpVars>>

\* ------------------------- routes/gemini.ts: POST /models/:modelAction
\* The keys of geminiCliModels.
GeminiCliModels == {<<"gemini-2.5-flash">>, <<"gemini-2.5-pro">>}

\* The modelAction path parameter, kept as its pieces: names and colons.
ModelActions ==
    LET names == {"gemini-2.5-flash", "gemini-1.0"}
        actions == {"generateContent", "streamGenerateContent", "countTokens"}
    IN  {<<m>> : m \in names}
        \cup {<<m, ":", a>> : m \in names, a \in actions}
        \cup {<<m, ":", "x", ":", a>> : m \in names, a \in actions}
        \cup {<<":", a>> : a \in actions}

\* One entry of contents with the given role (no role property for
\* undefined).
Content(role) ==
    IF role = Undefined
    THEN Obj(<<Prop("parts", Arr(<<>>))>>)
    ELSE Obj(<<Prop("role", role), Prop("parts", Arr(<<>>))>>)

\* The entries of contents: objects with each kind of role, and null.
ContentEntries ==
    {Content(r) : r \in {Undefined, Str(""), Str("user"), Str("model"),
                         Str("assistant"), Str("system"), Str("tool")}}
    \cup {Null}

\* A request body that is no JSON text.
Unparsable == [t |-> "unparsable"]

\* The request bodies as sent.
RouteBodies ==
    {Unparsable, Null, Obj(<<>>),
     Obj(<<Prop("contents", Str("hi"))>>),
     Obj(<<Prop("contents", Arr(<<>>))>>)}
    \cup {Obj(<<Prop("contents", Arr(<<a>>))>>) : a \in ContentEntries}
    \cup {Obj(<<Prop("contents", Arr(<<a, b>>))>>) : a, b \in ContentEntries}

\* pathParam.lastIndexOf(":"), 0 standing for -1
LastColon(pathParam) ==
    IF \E i \in 1..Len(pathParam) : pathParam[i] = ":"
    THEN CHOOSE i \in 1..Len(pathParam) :
            /\ pathParam[i] = ":"
            /\ \A k \in (i + 1)..Len(pathParam) : pathParam[k] # ":"
    ELSE 0

\* parseModelAction(pathParam)
ParseModelAction(pathParam) ==
    IF LastColon(pathParam) = 0 THEN Null
    ELSE [t |-> "object",
          model |-> SubSeq(pathParam, 1, LastColon(pathParam) - 1),
          action |-> SubSeq(pathParam, LastColon(pathParam) + 1, Len(pathParam))]

\* a template string, named by its fixed head and the value put into it
Template(head, value) == [t |-> "string", head |-> head, value |-> value]

\* One call of a collaborator, or one check of the handler, in the trace.
Step(op) == [op |-> op]

\* The handler is called with a path parameter and a body.
RouteCall(modelAction, sent) ==
    /\ stage = "idle"
    /\ req' = [modelAction |-> modelAction, sent |-> sent, body |-> Undefined]
    /\ stage' = "parseModelAction"
    /\ UNCHANGED <<env, trace, reply, openaiVars, nativeVars, pairVars, pumpVars>>

\* A check of the handler: it answers and ends the handler, or lets it go on.
Check(at, answer, then) ==
    /\ trace' = Append(trace, Step(at))
    /\ reply' = answer
    /\ stage' = IF answer = Null THEN then ELSE "done"
    /\ UNCHANGED <<env, openaiVars, nativeVars, pairVars, pumpVars>>

\* const parsed = parseModelAction(modelAction); if (!parsed) return 400
ValidateParsed ==
    /\ stage = "parseModelAction"
    /\ Check("parseModelAction",
             IF ParseModelAction(req.modelAction) = Null
             THEN GeminiError(400, Str("Invalid request format. Expected: /models/{model}:{action}"),
                              "INVALID_ARGUMENT")
             ELSE Null,
             "model")
    /\ req' = req

\* the handler taking every model id
ValidateModelAny ==
    /\ stage = "model"
    /\ Check("model", Null, "action")
    /\ req' = req

\* if (!(modelId in geminiCliModels)) return 404
ValidateModel ==
    /\ stage = "model"
    /\ Check("model",
             IF ParseModelAction(req.modelAction).model \notin GeminiCliModels
             THEN GeminiError(404, Template("Model not found: ",
                                            ParseModelAction(req.modelAction).model),
                              "NOT_FOUND")
             ELSE Null,
             "action")
    /\ req' = req

\* if (action !== "generateContent" && action !== "streamGenerateContent")
\* return 400
ValidateAction ==
    /\ stage = "action"
    /\ Check("action",
             IF ParseModelAction(req.modelAction).action
                    \notin {<<"generateContent">>, <<"streamGenerateContent">>}
             THEN GeminiError(400, Template("Invalid action: ",
                                            ParseModelAction(req.modelAction).action),
                              "INVALID_ARGUMENT")
             ELSE Null,
             "json")
    /\ req' = req

\* const body = await c.req.json(): a body that is no JSON text rejects and
\* the outer catch answers 500.
ReadBody ==
    /\ stage = "json"
    /\ Check("json",
             IF req.sent = Unparsable
             THEN GeminiError(500, Str("SyntaxError"), "INTERNAL")
             ELSE Null,
             "contents")
    /\ req' = [req EXCEPT !.body = IF req.sent = Unparsable THEN Undefined ELSE req.sent]

\* if (!body.contents || !Array.isArray(body.contents) ||
\* body.contents.length === 0) return 400; body.contents of null throws and
\* the outer catch answers 500.
ValidateContents ==
    /\ stage = "contents"
    /\ Check("contents",
             IF req.body = Null
             THEN GeminiError(500, Str("TypeError"), "INTERNAL")
             ELSE IF \/ ~Truthy(Get(req.body, "contents"))
                     \/ Get(req.body, "contents").t # "array"
                     \/ Len(Get(req.body, "contents").a) = 0
             THEN GeminiError(400, Str("contents is required and must be a non-empty array"),
                              "INVALID_ARGUMENT")
             ELSE Null,
             "roles")
    /\ req' = req

\* The role is none of those the loop accepts or converts.
RoleIsInvalid(role) ==
    /\ Truthy(role)
    /\ role \notin {Str("user"), Str("model"), Str("assistant"), Str("system")}

\* the loop leaving a system role as it is
NormalizeRoleKeepsSystem(role) ==
    IF ~Truthy(role) THEN Str("user")
    ELSE IF role = Str("assistant") THEN Str("model")
    ELSE role

\* The role the loop leaves in an entry whose role is not invalid.
NormalizeRole(role) ==
    IF ~Truthy(role) THEN Str("user")
    ELSE IF role = Str("user") \/ role = Str("model") THEN role
    ELSE IF role = Str("assistant") THEN Str("model")
    ELSE Str("user")

\* content.role = role: the property is replaced where it stands, or added
\* behind the others.
WithRole(content, role) ==
    IF In("role", content)
    THEN Obj([i \in 1..Len(content.e) |->
                IF content.e[i].k = "role" THEN Prop("role", role) ELSE content.e[i]])
    ELSE Obj(Append(content.e, Prop("role", role)))

\* The entries at which the loop over body.contents ends the handler: an
\* invalid role, or null, whose role cannot be read.
LoopStops(contents) ==
    {i \in 1..Len(contents) :
        contents[i] = Null \/ RoleIsInvalid(Get(contents[i], "role"))}

\* body.contents after the loop has run up to, not including, entry n
NormalizedUpTo(contents, n) ==
    [i \in 1..Len(contents) |->
        IF i < n THEN WithRole(contents[i], NormalizeRole(Get(contents[i], "role")))
        ELSE contents[i]]

\* for (const content of body.contents) { ... }: the roles are rewritten in
\* place; the first invalid role answers 400, a null entry throws and the
\* outer catch answers 500.
NormalizeRoles ==
    /\ stage = "roles"
    /\ LET contents == Get(req.body, "contents").a
           stops == LoopStops(contents)
           first == IF stops = {} THEN Len(contents) + 1
                    ELSE CHOOSE i \in stops : \A k \in stops : i <= k
       IN  /\ Check("roles",
                    IF stops = {} THEN Null
                    ELSE IF contents[first] = Null
                    THEN GeminiError(500, Str("TypeError"), "INTERNAL")
                    ELSE GeminiError(400, Template("Invalid role: ",
                                                   Get(contents[first], "role")),
                                     "INVALID_ARGUMENT"),
                    "initializeAuth")
           /\ req' = [req EXCEPT !.body =
                        Obj(<<Prop("contents", Arr(NormalizedUpTo(contents, first)))>>)]

\* await authManager.initializeAuth(): a rejection is answered 401.
InitializeAuth(ok) ==
    /\ stage = "initializeAuth"
    /\ Check("initializeAuth",
             IF ok THEN Null
             ELSE GeminiError(401, Template("Authentication failed: ", Str("e")),
                              "UNAUTHENTICATED"),
             "upstream")
    /\ req' = req

\* geminiClient.streamContentNative(modelId, body), after which the handler
\* goes on as the streaming route does, or
\* await geminiClient.getCompletionNative(modelId, body), answered with the
\* completion or, when it rejects, 500 by the outer catch.
CallUpstream(ok) ==
    /\ stage = "upstream"
    /\ LET parsed == ParseModelAction(req.modelAction)
           isStreaming == parsed.action = <<"streamGenerateContent">>
       IN  /\ trace' = Append(trace,
                  [op |-> IF isStreaming THEN "streamContentNative"
                          ELSE "getCompletionNative",
                   modelId |-> parsed.model, body |-> req.body])
           /\ stage' = IF isStreaming THEN "streaming" ELSE "done"
           /\ reply' = IF isStreaming THEN reply
                       ELSE IF ok THEN [status |-> 200, body |-> Obj(<<>>)]
                       ELSE GeminiError(500, Str("e"), "INTERNAL")
    /\ UNCHANGED <<req, env, openaiVars, nativeVars, pairVars, pumpVars>>

\* ---------------------------------------------------------- specifications
Init == InitOpenAI /\ InitNative /\ InitPair /\ InitPump /\ InitHttp

\* One OpenAI transformer session.
Next ==
    \/ \E chunk \in StreamChunks : Transform(chunk)
    \/ Flush

Spec == Init /\ [][Next]_vars

\* One native transformer session.
NextNative ==
    \/ \E chunk \in NativeChunks : NativeTransform(chunk)
    \/ NativeFlush

SpecNative == Init /\ [][NextNative]_vars

\* One response: exactly one of the two transformers is instantiated and fed.
NextEither ==
    \/ nativeEvents = <<>> /\ nativePhase = "streaming" /\ Next
    \/ events = <<>> /\ phase = "streaming" /\ NextNative

SpecEither == Init /\ [][NextEither]_vars

\* Two OpenAI transformer sessions whose callbacks interleave.
NextPair ==
    \/ \E m \in Models, now \in Clock : NewSession(m, now)
    \/ Switch
    \/ \E chunk \in PairChunks : PairTransform(chunk)
    \/ Flush

SpecPair == Init /\ [][NextPair]_vars

\* One request to the native streaming route.
NextPump ==
    \/ \E r \in IteratorResults : FirstNext(r)
    \/ FirstWrite
    \/ \E r \in IteratorResults : PumpNext(r)
    \/ WriteAccepted
    \/ WriteFailed
    \/ PumpClose
    \/ PumpCatch
    \/ PipeTransform
    \/ PipeFlush
    \/ ConsumerCancel

SpecPump == Init /\ [][NextPump]_vars

\* The streaming handler with every await of the handler and of the pump
\* settling in the end (the upstream answers each iterator.next(), a write
\* the stream has room for resolves) and the response body being read from
\* for as long as the client is connected.
SpecPumpFair ==
    /\ SpecPump
    /\ WF_vars(\E r \in IteratorResults : FirstNext(r))
    /\ WF_vars(FirstWrite)
    /\ WF_vars(\E r \in IteratorResults : PumpNext(r))
    /\ WF_vars(WriteAccepted)
    /\ WF_vars(WriteFailed)
    /\ WF_vars(PumpClose)
    /\ WF_vars(PumpCatch)
    /\ WF_vars(PipeTransform)
    /\ WF_vars(PipeFlush)

\* One request through the middleware chain of the app.
NextApp ==
    \/ stage = "idle" /\ \E r \in Requests, e \in Bindings : Arrive(r, e)
    \/ LoggingMiddleware
    \/ Cors
    \/ OpenAIAuth
    \/ GeminiAuth
    \/ Route

SpecApp == Init /\ [][NextApp]_vars

\* One call of proxyFetch.
NextProxy ==
    \/ stage = "idle" /\ \E url \in Urls \cup {NotAUrl}, init \in Inits,
                            proxyUrl \in {Undefined, Str("")}
                                         \cup {Str(u) : u \in Urls \cup {NotAUrl}} :
            ProxyFetchCall(url, init, proxyUrl)
    \/ ProxyFetchEntry
    \/ \E ok \in BOOLEAN : Connect(ok)
    \/ \E ok \in BOOLEAN : WriteConnect(ok)
    \/ \E ok \in BOOLEAN, r \in ConnectReplies : ReadConnect(ok, r)
    \/ CheckConnect
    \/ \E ok \in BOOLEAN : StartTls(ok)
    \/ \E ok \in BOOLEAN : WriteRequest(ok)
    \/ \E ok \in BOOLEAN, status \in ParsedStatuses : ReadResponse(ok, status)
    \/ ProxyCatch
    \/ \E result \in FetchResults : FetchSettles(result)

SpecProxy == Init /\ [][NextProxy]_vars

\* One request to POST /models/:modelAction.
NextRoute ==
    \/ stage = "idle" /\ \E modelAction \in ModelActions, sent \in RouteBodies :
            RouteCall(modelAction, sent)
    \/ ValidateParsed
    \/ ValidateModel
    \/ ValidateAction
    \/ ReadBody
    \/ ValidateContents
    \/ NormalizeRoles
    \/ \E ok \in BOOLEAN : InitializeAuth(ok)
    \/ \E ok \in BOOLEAN : CallUpstream(ok)

SpecRoute == Init /\ [][NextRoute]_vars

\* ------------------------------------------------- reading the output back
\* A frame whose data is a JSON text (every frame but the sentinel).
IsJSONFrame(f) == "json" \in DOMAIN f.data
\* choices[0] of a JSON frame
ChoiceOf(f) == Get(f.data.json, "choices").a[1]
\* choices[0].delta of a JSON frame
FrameDelta(f) == Get(ChoiceOf(f), "delta")
\* choices[0].finish_reason of a JSON frame
FrameFinishReason(f) == Get(ChoiceOf(f), "finish_reason")
\* A delta frame: finish_reason null.
IsDeltaFrame(f) == IsJSONFrame(f) /\ FrameFinishReason(f) = Null
\* A terminal frame: non-null finish_reason.
IsTerminalFrame(f) == IsJSONFrame(f) /\ FrameFinishReason(f) # Null
\* The positions of a sequence that satisfy a test.
Positions(seq, Test(_)) == {i \in 1..Len(seq) : Test(seq[i])}
\* The subsequence of the elements that satisfy a test.
Only(seq, Test(_)) == SelectSeq(seq, Test)

\* A tool_call event: a tool_code chunk that passes the structural check.
IsToolCall(chunk) ==
    /\ chunk.type = "tool_code"
    /\ chunk.data.t = "object"
    /\ \E i \in 1..Len(chunk.data.e) : chunk.data.e[i].k = "name"
    /\ \E i \in 1..Len(chunk.data.e) : chunk.data.e[i].k = "args"
\* A finish_signal event: a finish_reason chunk with a string payload.
IsFinishSignal(chunk) == chunk.type = "finish_reason" /\ chunk.data.t = "string"
\* The payload of the last finish_signal event, "" when there was none.
LastFinishSignal(evs) ==
    LET at == Positions(evs, IsFinishSignal)
    IN  IF at = {} THEN ""
        ELSE evs[CHOOSE i \in at : \A j \in at : j <= i].data.s
\* The finish-reason vocabulary as the documentation gives it.
DocumentedFinish(signal) ==
    CASE signal = "STOP" -> "stop"
      [] signal = "MAX_TOKENS" -> "length"
      [] signal = "SAFETY" -> "content_filter"
      [] signal = "RECITATION" -> "content_filter"
      [] OTHER -> "stop"
\* The terminal frames of the output.
TerminalFrames == Only(out, IsTerminalFrame)

\* ------------------------------------------------------------------ claims
\* C1: at finalization the terminal frame's finish_reason is "tool_calls" as
\* soon as one tool_call event occurred in the session, whatever finish_signal
\* was buffered and whether it came before or after the tool_call; with no
\* tool_call event it is the mapped finish_signal and never "tool_calls".
FinishReasonPrecedence ==
    phase = "finalized" =>
        /\ Len(TerminalFrames) = 1
        /\ LET reason == FrameFinishReason(TerminalFrames[1])
           IN  IF Positions(events, IsToolCall) # {}
               THEN reason = Str("tool_calls")
               ELSE reason = Str(DocumentedFinish(LastFinishSignal(events)))

\* C1 witness: a finalized session in which a MAX_TOKENS finish_signal came
\* after a tool_call and the terminal frame says tool_calls.
FinishReasonPrecedenceWitness ==
    /\ phase = "finalized"
    /\ Len(events) = 2
    /\ IsToolCall(events[1])
    /\ events[2] = Chunk("finish_reason", Str("MAX_TOKENS"))
    /\ FrameFinishReason(out[Len(out) - 1]) = Str("tool_calls")

\* A frame whose delta carries a tool-call list.
HasToolCalls(f) == IsJSONFrame(f) /\ In("tool_calls", FrameDelta(f))
\* The frames carrying a tool-call list, in emission order.
ToolFrames == Only(out, HasToolCalls)
\* The one call of a tool frame's list.
ToolCallOf(f) == Get(FrameDelta(f), "tool_calls").a[1]

\* C2: N tool_call events give exactly N frames with a tool-call list, each
\* list has one element, the k-th such frame has index k-1 (the counter is
\* the number of tool_call events so far), and the call ids are pairwise
\* distinct.
ToolCallIndexing ==
    /\ Len(ToolFrames) = Cardinality(Positions(events, IsToolCall))
    /\ toolCallIndex = Cardinality(Positions(events, IsToolCall))
    /\ \A k \in 1..Len(ToolFrames) :
        /\ Len(Get(FrameDelta(ToolFrames[k]), "tool_calls").a) = 1
        /\ Get(ToolCallOf(ToolFrames[k]), "index") = Num(k - 1)
        /\ \A j \in 1..Len(ToolFrames) :
            j # k => Get(ToolCallOf(ToolFrames[j]), "id")
                        # Get(ToolCallOf(ToolFrames[k]), "id")

\* C2 witness: a session with two tool_call events and a third event between
\* them, after both tool frames were emitted.
ToolCallIndexingWitness ==
    /\ Len(events) = 3
    /\ IsToolCall(events[1]) /\ ~IsToolCall(events[2]) /\ IsToolCall(events[3])
    /\ Len(ToolFrames) = 2

\* C3: upstream completion emits exactly one terminal frame (empty delta,
\* non-null finish_reason) and exactly one [DONE] sentinel; the terminal
\* frame follows every delta frame and the sentinel is last; before
\* completion neither is in the output; the empty sequence gives just the two.
TerminalThenSentinel ==
    /\ phase = "streaming" => \A i \in 1..Len(out) : IsDeltaFrame(out[i])
    /\ phase = "finalized" =>
        /\ Len(out) >= 2
        /\ out[Len(out)] = DoneFrame
        /\ IsTerminalFrame(out[Len(out) - 1])
        /\ FrameDelta(out[Len(out) - 1]) = Obj(<<>>)
        /\ \A i \in 1..(Len(out) - 2) : IsDeltaFrame(out[i])
        /\ events = <<>> => Len(out) = 2

\* C3 witness: a finalized session whose terminal frame and sentinel follow
\* two delta frames.
TerminalThenSentinelWitness ==
    /\ phase = "finalized"
    /\ Len(out) = 4
    /\ IsDeltaFrame(out[1]) /\ IsDeltaFrame(out[2])

\* A text or thinking_content event with a string payload.
IsContentEvent(chunk) ==
    chunk.type \in {"text", "thinking_content"} /\ chunk.data.t = "string"
\* A text event with a string payload.
IsTextEvent(chunk) == chunk.type = "text" /\ chunk.data.t = "string"
\* A frame whose delta has a string content field.
HasStringContent(f) ==
    IsJSONFrame(f) /\ Get(FrameDelta(f), "content").t = "string"
\* The concatenation of the payloads of the content events of a sequence.
RECURSIVE ConcatPayloads(_)
ConcatPayloads(evs) ==
    IF evs = <<>> THEN ""
    ELSE (IF IsContentEvent(Head(evs)) THEN Head(evs).data.s ELSE "")
         \o ConcatPayloads(Tail(evs))
\* The concatenation of the string content fields of a sequence of frames.
RECURSIVE ConcatContents(_)
ConcatContents(frames) ==
    IF frames = <<>> THEN ""
    ELSE (IF HasStringContent(Head(frames))
          THEN Get(FrameDelta(Head(frames)), "content").s ELSE "")
         \o ConcatContents(Tail(frames))

\* C4: the content fields of the emitted frames, concatenated in emission
\* order, spell the concatenation of the string payloads of the text events;
\* in a session of text events only, every event gives one frame and the
\* first frame carries role "assistant".
TextConcatenation ==
    /\ ConcatContents(out) = ConcatPayloads(events)
    /\ (phase = "streaming" /\ events # <<>>
            /\ \A i \in 1..Len(events) : IsTextEvent(events[i])) =>
        /\ Len(out) = Len(events)
        /\ \A i \in 1..Len(out) :
            Get(FrameDelta(out[i]), "content") = events[i].data
        /\ Get(FrameDelta(out[1]), "role") = Str("assistant")

\* C4 witness: the text events "b", "a", "b" gave three frames spelling "bab".
TextConcatenationWitness ==
    /\ events = <<Chunk("text", Str("b")), Chunk("text", Str("a")),
                  Chunk("text", Str("b"))>>
    /\ Len(out) = 3
    /\ ConcatContents(out) = "bab"

\* C5: without a tool_call event the terminal finish_reason is stop for
\* STOP, length for MAX_TOKENS, content_filter for SAFETY and RECITATION, and
\* stop for any other signal and for none; it is always one of stop, length,
\* content_filter, tool_calls.
FinishReasonVocabulary ==
    phase = "finalized" =>
        LET reason == FrameFinishReason(out[Len(out) - 1])
            signal == LastFinishSignal(events)
        IN  /\ reason \in {Str("stop"), Str("length"), Str("content_filter"),
                           Str("tool_calls")}
            /\ Positions(events, IsToolCall) = {} =>
                /\ signal = "STOP" => reason = Str("stop")
                /\ signal = "MAX_TOKENS" => reason = Str("length")
                /\ signal \in {"SAFETY", "RECITATION"} => reason = Str("content_filter")
                /\ signal \notin {"STOP", "MAX_TOKENS", "SAFETY", "RECITATION"}
                        => reason = Str("stop")

\* C5 witness: a finalized session without tool calls whose last finish_signal
\* was RECITATION and whose terminal frame says content_filter.
FinishReasonVocabularyWitness ==
    /\ phase = "finalized"
    /\ Positions(events, IsToolCall) = {}
    /\ LastFinishSignal(events) = "RECITATION"
    /\ FrameFinishReason(out[Len(out) - 1]) = Str("content_filter")

\* A usage event: a usage chunk that passes the structural check.
IsUsageEvent(chunk) ==
    /\ chunk.type = "usage"
    /\ chunk.data.t = "object"
    /\ \E i \in 1..Len(chunk.data.e) : chunk.data.e[i].k = "inputTokens"
    /\ \E i \in 1..Len(chunk.data.e) : chunk.data.e[i].k = "outputTokens"
\* The payload of the last usage event of a sequence that has one.
LastUsage(evs) ==
    LET at == Positions(evs, IsUsageEvent)
    IN  evs[CHOOSE i \in at : \A j \in at : j <= i].data

\* C6: every delta frame carries usage null; the terminal frame carries no
\* usage when no usage event was received, and otherwise exactly
\* prompt_tokens p, completion_tokens c and total_tokens p + c of the usage
\* event received (the latest, should there be several).
UsageOnTerminalFrame ==
    /\ \A i \in 1..Len(out) :
        IsDeltaFrame(out[i]) => /\ In("usage", out[i].data.json)
                                /\ Get(out[i].data.json, "usage") = Null
    /\ phase = "finalized" =>
        LET final == out[Len(out) - 1].data.json
        IN  IF Positions(events, IsUsageEvent) = {}
            THEN ~In("usage", final)
            ELSE LET p == Get(LastUsage(events), "inputTokens")
                     c == Get(LastUsage(events), "outputTokens")
                     usage == Get(final, "usage")
                 IN  /\ In("usage", final)
                     /\ Len(usage.e) = 3
                     /\ Get(usage, "prompt_tokens") = p
                     /\ Get(usage, "completion_tokens") = c
                     /\ Get(usage, "total_tokens") = Num(p.n + c.n)

\* C6 witness: the usage event {inputTokens: 10, outputTokens: 5} was
\* received, a delta frame was emitted, and the terminal frame's total is 15.
UsageOnTerminalFrameWitness ==
    /\ phase = "finalized"
    /\ \E i \in 1..Len(events) : events[i] = Chunk("usage", UsageA)
    /\ Positions(events, IsUsageEvent) # {}
    /\ LastUsage(events) = UsageA
    /\ Len(out) >= 3
    /\ Get(Get(out[Len(out) - 1].data.json, "usage"), "total_tokens") = Num(15)

\* C7: the transform step of a finish_reason or usage chunk enqueues no
\* frame, whatever its payload.
BufferedEventsEmitNothing ==
    [][(Len(events') = Len(events) + 1
            /\ events'[Len(events')].type \in {"finish_reason", "usage"})
        => out' = out]_vars

\* C7 witness: a finish_signal and a usage event were processed and latched
\* and the output is still empty.
BufferedEventsEmitNothingWitness ==
    /\ events = <<Chunk("finish_reason", Str("SAFETY")), Chunk("usage", UsageB)>>
    /\ finishReason = Str("SAFETY")
    /\ usageData = UsageB
    /\ out = <<>>

\* C8: no delta frame is ever emitted with an empty delta, whatever the kind
\* and payload of the event (a frame is emitted only for a delta with at
\* least one populated field).
NoEmptyDeltaFrame ==
    \A i \in 1..Len(out) : IsDeltaFrame(out[i]) => FrameDelta(out[i]) # Obj(<<>>)

\* An object payload that has a given property.
HasProp(data, key) ==
    data.t = "object" /\ \E i \in 1..Len(data.e) : data.e[i].k = key
\* An event the transformer drops: a kind it does not know, or a payload that
\* fails the structural check of its kind.
IsDropped(chunk) ==
    CASE chunk.type \in {"text", "thinking_content", "real_thinking",
                         "finish_reason"} -> chunk.data.t # "string"
      [] chunk.type = "reasoning" ->
            ~(HasProp(chunk.data, "reasoning") \/ HasProp(chunk.data, "toolCode"))
      [] chunk.type = "tool_code" ->
            ~(HasProp(chunk.data, "name") /\ HasProp(chunk.data, "args"))
      [] chunk.type = "native_tool" ->
            ~(HasProp(chunk.data, "type") /\ HasProp(chunk.data, "data"))
      [] chunk.type = "grounding_metadata" ->
            chunk.data.t \in {"null", "undefined"}
      [] chunk.type = "usage" ->
            ~(HasProp(chunk.data, "inputTokens") /\ HasProp(chunk.data, "outputTokens"))
      [] OTHER -> TRUE
\* An event that is neither dropped nor buffered.
IsFrameEvent(chunk) ==
    ~IsDropped(chunk) /\ chunk.type \notin {"finish_reason", "usage"}

\* C9: the step of a dropped event enqueues nothing and leaves the stream
\* open; the events around it are processed as usual (the delta frames are as
\* many as the events that are neither dropped nor buffered), and completion
\* still ends the output with the terminal frame and the sentinel.
DroppedEventsAreSilent ==
    [][/\ (Len(events') = Len(events) + 1 /\ IsDropped(events'[Len(events')]))
            => (out' = out /\ phase' = "streaming")
       /\ Len(Only(out', IsDeltaFrame)) = Cardinality(Positions(events', IsFrameEvent))
       /\ phase' = "finalized" =>
            /\ out'[Len(out')] = DoneFrame
            /\ IsTerminalFrame(out'[Len(out') - 1])]_vars

\* C9 witness: a chunk of unknown kind and a malformed tool_code chunk were
\* dropped, the text event after them gave its frame, and the session was
\* finalized with terminal frame and sentinel.
DroppedEventsAreSilentWitness ==
    /\ events = <<Chunk("ping", Str("a")),
                  Chunk("tool_code", Obj(<<Prop("name", Str("f"))>>)),
                  Chunk("text", Str("a"))>>
    /\ phase = "finalized"
    /\ Len(out) = 3
    /\ IsDeltaFrame(out[1])
    /\ out[3] = DoneFrame

\* A structurally valid envelope: a gemini_native chunk whose payload is an
\* object with a candidates property.
IsEnvelope(chunk) ==
    chunk.type = "gemini_native" /\ HasProp(chunk.data, "candidates")

\* C10: the native transformer has emitted exactly one frame per structurally
\* valid envelope processed and none for any other chunk, and the k-th frame's
\* data is the JSON text of the k-th valid envelope's payload, field for field.
NativePassthrough ==
    /\ Len(nativeOut) = Cardinality(Positions(nativeEvents, IsEnvelope))
    /\ \A k \in 1..Len(nativeOut) :
        /\ nativeOut[k].data.t = "string"
        /\ nativeOut[k].data.json = Only(nativeEvents, IsEnvelope)[k].data

\* C10 witness: two envelopes with a null payload between them gave two frames.
NativePassthroughWitness ==
    /\ nativeEvents = <<Chunk("gemini_native", EnvelopeB),
                        Chunk("gemini_native", Null),
                        Chunk("gemini_native", EnvelopeA)>>
    /\ Len(nativeOut) = 2
    /\ nativeOut[2].data.json = EnvelopeA

\* C11: completion of the native transformer enqueues nothing: the output
\* holds envelope frames only, never a sentinel or a terminal frame, a
\* finalized session has exactly the frames of its valid envelopes, and the
\* empty sequence gives no frame at all.
NativeCompletionEmitsNothing ==
    /\ \A k \in 1..Len(nativeOut) :
        /\ nativeOut[k] # DoneFrame
        /\ IsJSONFrame(nativeOut[k])
        /\ In("candidates", nativeOut[k].data.json)
        /\ ~In("choices", nativeOut[k].data.json)
    /\ nativePhase = "finalized" =>
        /\ Len(nativeOut) = Len(Only(nativeEvents, IsEnvelope))
        /\ nativeEvents = <<>> => nativeOut = <<>>

\* C11 witness: a finalized native session of one envelope and one malformed
\* chunk whose output is the single envelope frame.
NativeCompletionEmitsNothingWitness ==
    /\ nativePhase = "finalized"
    /\ nativeEvents = <<Chunk("gemini_native", EnvelopeA),
                        Chunk("gemini_native", Str("x"))>>
    /\ Len(nativeOut) = 1

\* The value of a property an object payload has.
PropValue(data, key) ==
    data.e[CHOOSE i \in 1..Len(data.e) : data.e[i].k = key].v
\* The delta frame f is the rendering of the event chunk.
FrameCarries(f, chunk) ==
    LET delta == FrameDelta(f) IN
    CASE chunk.type \in {"text", "thinking_content"} ->
            Get(delta, "content") = chunk.data
      [] chunk.type = "real_thinking" -> Get(delta, "reasoning") = chunk.data
      [] chunk.type = "reasoning" ->
            IF HasProp(chunk.data, "reasoning")
            THEN Get(delta, "reasoning") = PropValue(chunk.data, "reasoning")
            ELSE ~In("reasoning", delta)
      [] chunk.type = "tool_code" ->
            /\ In("tool_calls", delta)
            /\ Get(Get(ToolCallOf(f), "function"), "name")
                    = PropValue(chunk.data, "name")
      [] chunk.type = "native_tool" ->
            Get(delta, "native_tool_calls") = Arr(<<chunk.data>>)
      [] chunk.type = "grounding_metadata" -> Get(delta, "grounding") = chunk.data
      [] OTHER -> FALSE
\* A queue after one transform call: unchanged, or longer by one frame at its end.
AtMostOneAppended(before, after) ==
    \/ after = before
    \/ Len(after) = Len(before) + 1 /\ SubSeq(after, 1, Len(before)) = before

\* C12: each transform call of either transformer appends at most one frame
\* and touches no earlier frame, and the frames stand in the order of the
\* events that produced them: the k-th delta frame renders the k-th event
\* that produces a frame, the k-th native frame the k-th valid envelope, so
\* no frame is merged, duplicated or skipped.
OrderPreserved ==
    [][/\ Len(events') = Len(events) + 1 => AtMostOneAppended(out, out')
       /\ Len(nativeEvents') = Len(nativeEvents) + 1
            => AtMostOneAppended(nativeOut, nativeOut')
       /\ Len(Only(out', IsDeltaFrame)) = Len(Only(events', IsFrameEvent))
       /\ \A k \in 1..Len(Only(out', IsDeltaFrame)) :
            FrameCarries(Only(out', IsDeltaFrame)[k], Only(events', IsFrameEvent)[k])
       /\ Len(nativeOut') = Len(Only(nativeEvents', IsEnvelope))
       /\ \A k \in 1..Len(nativeOut') :
            nativeOut'[k].data.json = Only(nativeEvents', IsEnvelope)[k].data]_vars

\* C12 witness: the events text "b", real_thinking, text "a" gave three
\* frames in that order.
OrderPreservedWitness ==
    /\ events = <<Chunk("text", Str("b")), Chunk("real_thinking", Str("r")),
                  Chunk("text", Str("a"))>>
    /\ Len(out) = 3
    /\ Get(FrameDelta(out[1]), "content") = Str("b")
    /\ Get(FrameDelta(out[2]), "reasoning") = Str("r")
    /\ Get(FrameDelta(out[3]), "content") = Str("a")

\* The session has been finalized: the sentinel is in the output.
Finalized == \E i \in 1..Len(out) : out[i] = DoneFrame
\* not-started (0), streaming (1), finalized (2)
LifecycleRank == IF Finalized THEN 2 ELSE IF events # <<>> THEN 1 ELSE 0

SessionIdentityFixed ==
    [][/\ chatID' = chatID /\ creationTime' = creationTime /\ model' = model
       /\ \A i \in 1..Len(out') :
            IsJSONFrame(out'[i]) =>
                /\ Get(out'[i].data.json, "id") = chatID'
                /\ Get(out'[i].data.json, "created") = Num(creationTime')
                /\ Get(out'[i].data.json, "model") = Str(model')]_vars

\* C14 witness: a finalized session with two delta frames and the terminal
\* frame, all three carrying the chatcmpl- id drawn at construction.
SessionIdentityFixedWitness ==
    /\ phase = "finalized"
    /\ Len(out) = 4
    /\ chatID.prefix = "chatcmpl-"
    /\ \A i \in 1..3 : Get(out[i].data.json, "id") = chatID

\* C15: of several finish_signal events the last one is the one latched, and
\* without a tool_call it is the one the terminal finish_reason maps.
LaterFinishSignalWins ==
    /\ Positions(events, IsFinishSignal) # {}
        => finishReason = Str(LastFinishSignal(events))
    /\ (/\ phase = "finalized"
        /\ Positions(events, IsToolCall) = {}
        /\ Cardinality(Positions(events, IsFinishSignal)) >= 2)
        => FrameFinishReason(out[Len(out) - 1])
                = Str(DocumentedFinish(LastFinishSignal(events)))

\* C15 witness: MAX_TOKENS then SAFETY, no tool call: the terminal frame says
\* content_filter.
LaterFinishSignalWinsWitness ==
    /\ phase = "finalized"
    /\ events = <<Chunk("finish_reason", Str("MAX_TOKENS")),
                  Chunk("finish_reason", Str("SAFETY"))>>
    /\ FrameFinishReason(out[Len(out) - 1]) = Str("content_filter")

\* The k-th smallest element of a set of positions.
NthPosition(S, k) == CHOOSE p \in S : Cardinality({q \in S : q < p}) = k - 1
\* The position in events of the tool_call event behind the k-th tool frame.
ToolEventPosition(k) == NthPosition(Positions(events, IsToolCall), k)
\* The frame announces the role the way a tool_call frame does.
AnnouncesToolRole(f) ==
    /\ Get(FrameDelta(f), "role") = Str("assistant")
    /\ In("content", FrameDelta(f))
    /\ Get(FrameDelta(f), "content") = Null
\* The frame carries neither role nor content.
CarriesNoRole(f) == ~In("role", FrameDelta(f)) /\ ~In("content", FrameDelta(f))

\* C16 as claimed: a tool_call frame carries role "assistant" and content
\* null if its event is the first event of the session, and neither if any
\* event came before it (dropped chunks not counted as events).
ToolRoleOnlyWhenFirstEvent ==
    \A k \in 1..Len(ToolFrames) :
        IF \A j \in 1..(ToolEventPosition(k) - 1) : IsDropped(events[j])
        THEN AnnouncesToolRole(ToolFrames[k])
        ELSE CarriesNoRole(ToolFrames[k])

\* C16 as amended: a tool_call frame carries role "assistant" and content
\* null if no text, thinking_content or tool_call event came before it,
\* whatever other events did, and neither if one did.
ToolRoleWhileFirstContent ==
    \A k \in 1..Len(ToolFrames) :
        IF \A j \in 1..(ToolEventPosition(k) - 1) :
                ~IsContentEvent(events[j]) /\ ~IsToolCall(events[j])
        THEN AnnouncesToolRole(ToolFrames[k])
        ELSE CarriesNoRole(ToolFrames[k])

\* C16 witness: a tool_call after a real_thinking event announces the role,
\* the tool_call after it does not.
ToolRoleWhileFirstContentWitness ==
    /\ Len(events) = 3
    /\ events[1] = Chunk("real_thinking", Str("r"))
    /\ IsToolCall(events[2]) /\ IsToolCall(events[3])
    /\ Len(ToolFrames) = 2
    /\ AnnouncesToolRole(ToolFrames[1])
    /\ CarriesNoRole(ToolFrames[2])

\* ------------------------------------------------------ session isolation
\* A value with every tool-call id replaced by one fixed id.
RECURSIVE EraseCallIds(_)
EraseCallIds(v) ==
    CASE "prefix" \in DOMAIN v -> IF v.prefix = "call_" THEN Tpl("call_", 0) ELSE v
      [] v.t = "object" ->
            Obj([i \in 1..Len(v.e) |-> Prop(v.e[i].k, EraseCallIds(v.e[i].v))])
      [] v.t = "array" -> Arr([i \in 1..Len(v.a) |-> EraseCallIds(v.a[i])])
      [] OTHER -> v

\* A frame sequence with the random tool-call ids erased.
EraseFrames(frames) ==
    [i \in 1..Len(frames) |->
        IF IsJSONFrame(frames[i])
        THEN SSEFrame([t |-> "string", json |-> EraseCallIds(frames[i].data.json)])
        ELSE frames[i]]

\* The bindings of an instance that has been written nothing.
AloneInit ==
    [firstChunk |-> TRUE, toolCallId |-> Null, finishReason |-> Null,
     toolCallIndex |-> 0, usageData |-> Undefined, out |-> <<>>]

\* One transform call of an instance that runs with no other instance alive.
AloneTransform(s, chunk) ==
    LET id == Tpl("call_", 0) IN
    [firstChunk |-> IF BearsContent(chunk) THEN FALSE ELSE s.firstChunk,
     toolCallId |-> IF DrawsCallId(chunk) THEN id ELSE s.toolCallId,
     finishReason |-> IF chunk.type = "finish_reason"
                      THEN LatchFinishReason(chunk.data, s.finishReason)
                      ELSE s.finishReason,
     toolCallIndex |-> IF DrawsCallId(chunk)
                       THEN NextToolCallIndex(s.toolCallIndex)
                       ELSE s.toolCallIndex,
     usageData |-> IF chunk.type = "usage"
                   THEN LatchUsage(chunk.data, s.usageData) ELSE s.usageData,
     out |-> s.out \o
             (IF Returns(chunk) THEN <<>>
              ELSE Emission(DeltaFor(chunk, s.firstChunk, s.toolCallIndex, id)))]

RECURSIVE AloneAfter(_)
AloneAfter(evs) ==
    IF evs = <<>> THEN AloneInit
    ELSE AloneTransform(AloneAfter(SubSeq(evs, 1, Len(evs) - 1)), evs[Len(evs)])

\* The frames an instance with this session's id, time and model emits when
\* it alone is written `evs` and, if `ph` says so, closed.
RunAlone(evs, ph) ==
    LET s == AloneAfter(evs) IN
    s.out \o
    (IF ph = "finalized"
     THEN <<SSEFrame(JSONstringify(
                FinalChunkFor(s.finishReason, s.toolCallId, s.usageData))),
            DoneFrame>>
     ELSE <<>>)

\* The instance whose callback runs has emitted what it emits when run alone.
EmitsAsAlone == EraseFrames(out) = RunAlone(events, phase)

\* C17: with two transformer instances whose transform and flush calls
\* interleave in any order, after every step the instance that ran has
\* emitted exactly the frames it emits when run alone on its own events
\* (tool-call ids apart); a transform or flush of one instance leaves every
\* binding, the input and the output of the other untouched; and turning to
\* the other instance finds its bindings as its own last step left them.
SessionIsolation ==
    /\ []EmitsAsAlone
    /\ [][/\ (active' = active /\ peer # Null) => peer' = peer
          /\ active' # active => (peer' = Closure /\ Closure' = peer)
          /\ peer' # Null => peer'.chatID # chatID']_vars

\* Both instances have emitted content and drawn tool-call ids, the first one
\* after the second was created; the second is closed, the first still open.
SessionIsolationWitness ==
    /\ peer # Null
    /\ active = 2
    /\ phase = "finalized"
    /\ peer.phase = "streaming"
    /\ ~firstChunk /\ ~peer.firstChunk
    /\ toolCallId # Null /\ peer.toolCallId # Null
    /\ peer.toolCallId.uuid > chatID.uuid
    /\ events # peer.events

\* ------------------------------------------- the native streaming route
\* C18: the pump pulls a value from the upstream iterator only when every
\* value pulled before has been accepted by a resolved writer.write; a write
\* is accepted only while the stream has room; while it has none the pending
\* write neither resolves nor is followed by another pull; so at most one
\* pulled value is unwritten at any time.
PumpBackpressure ==
    [][/\ Len(pulled') > Len(pulled) => Unwritten = 0
       /\ accepted' > accepted => (writer = "open" /\ Len(pipe) < PipeCapacity)
       /\ (pumpPc = "write" /\ Len(pipe) >= PipeCapacity)
            => (pulled' = pulled /\ accepted' = accepted)
       /\ Unwritten' <= 1]_vars

\* The pump waits in writer.write with a pulled value in hand, after a frame
\* has been read: the stream is full and the reader still connected.
PumpBackpressureWitness ==
    /\ pumpPc = "write"
    /\ Unwritten = 1
    /\ Len(pipe) = PipeCapacity
    /\ consumer = "connected"
    /\ nativeOut # <<>>

\* C19: once a writer.write of the pump has rejected because the response
\* body was cancelled, no further value is pulled from the upstream
\* iterator, no further write is accepted and no further frame is emitted.
PumpStopsAfterFailedWrite ==
    [][writeFailed => /\ pulled' = pulled
                      /\ accepted' = accepted
                      /\ nativeOut' = nativeOut]_vars

\* The reader cancelled after reading a frame, the pump's write rejected and
\* the pump has ended, with the upstream iterator not exhausted.
PumpStopsAfterFailedWriteWitness ==
    /\ writeFailed
    /\ consumer = "cancelled"
    /\ pumpPc = "done"
    /\ iterator = "open"
    /\ nativeOut # <<>>

\* C20: once the response body has been cancelled and the pump has ended,
\* the upstream iterator is not left open: it has finished by itself or has
\* been told to return.
CancellationReachesProducer ==
    (consumer = "cancelled" /\ pumpPc = "done") => iterator # "open"

\* C21: when the upstream iterator throws after the streaming response was
\* returned, the pump ends with the writer closed, never errored, as long as
\* the reader stays connected; and once the response body has ended it holds
\* exactly the frames of the valid envelopes pulled before the failure, in
\* order, each the JSON text of its envelope: no frame reports the error.
UpstreamFailureClosesNormally ==
    (iterator = "thrown" /\ response = "stream" /\ consumer = "connected") =>
        /\ writer # "errored"
        /\ pumpPc = "done" => writer = "closing"
        /\ nativePhase = "finalized" =>
            /\ Len(nativeOut) = Len(Only(pulled, IsEnvelope))
            /\ \A k \in 1..Len(nativeOut) :
                nativeOut[k] = SSEFrame(JSONstringify(Only(pulled, IsEnvelope)[k].data))

\* Two envelopes were delivered, then the iterator threw; the response body
\* has ended with the two frames.
UpstreamFailureClosesNormallyWitness ==
    /\ iterator = "thrown"
    /\ response = "stream"
    /\ consumer = "connected"
    /\ nativePhase = "finalized"
    /\ Len(pulled) = 2
    /\ Len(nativeOut) = 2

\* The error object of a JSON error reply.
ReplyError == Get(reply.body, "error")

\* C24: the streaming response exists only once a first upstream event has
\* been pulled; and when the iterator throws before any event, the reply is
\* a JSON error with a status other than 200, the handler has ended, no
\* chunk was written and no frame was emitted.
FirstEventGate ==
    /\ response = "stream" => (Len(pulled) >= 1 /\ reply = Null)
    /\ (iterator = "thrown" /\ pulled = <<>>) =>
        /\ response = "error"
        /\ reply # Null
        /\ reply.status # 200
        /\ ReplyError.t = "object"
        /\ pumpPc = "done"
        /\ accepted = 0 /\ pipe = <<>> /\ nativeOut = <<>>
        /\ writer = "open"

\* The upstream threw a message without a status in it before any event and
\* the reply is the 500 error.
FirstEventGateWitness ==
    /\ iterator = "thrown"
    /\ pulled = <<>>
    /\ response = "error"
    /\ reply.status = 500
    /\ Get(ReplyError, "message") = Text(<<"5", "0", "0">>)

\* C25: when the iterator is done before any event, the reply is the JSON
\* error 500 "Empty response from Gemini API" with status INTERNAL, no
\* stream is created and no frame emitted; a streaming response exists only
\* when at least one upstream event was pulled.
EmptyUpstreamIs500 ==
    /\ (iterator = "done" /\ pulled = <<>>) =>
        /\ response = "empty"
        /\ reply # Null
        /\ reply.status = 500
        /\ Get(ReplyError, "code") = Num(500)
        /\ Get(ReplyError, "message") = Str("Empty response from Gemini API")
        /\ Get(ReplyError, "status") = Str("INTERNAL")
        /\ pumpPc = "done"
        /\ nativeOut = <<>>
    /\ response = "stream" => pulled # <<>>

\* The upstream closed at once and the handler has answered.
EmptyUpstreamIs500Witness ==
    /\ iterator = "done"
    /\ pulled = <<>>
    /\ response = "empty"
    /\ reply.status = 500

\* The message of the error the first iterator.next() rejected with.
FirstRejection == trace[Len(trace)].message

\* C27: the reply to an error before the first event carries the message of
\* the error, a code equal to the HTTP status, and status and status text by
\* precedence: "429" in the message gives 429 RESOURCE_EXHAUSTED; otherwise
\* "401" or "403" gives 401 UNAUTHENTICATED; otherwise "404" gives 404
\* NOT_FOUND; otherwise 500 INTERNAL.
InitialErrorStatusMapping ==
    response = "error" =>
        LET has429 == Includes(FirstRejection, <<"4", "2", "9">>)
            hasAuth == \/ Includes(FirstRejection, <<"4", "0", "1">>)
                       \/ Includes(FirstRejection, <<"4", "0", "3">>)
            has404 == Includes(FirstRejection, <<"4", "0", "4">>)
            Is(code, text) == /\ reply.status = code
                              /\ Get(ReplyError, "status") = Str(text)
        IN  /\ Get(ReplyError, "code") = Num(reply.status)
            /\ Get(ReplyError, "message") = Text(FirstRejection)
            /\ has429 => Is(429, "RESOURCE_EXHAUSTED")
            /\ (~has429 /\ hasAuth) => Is(401, "UNAUTHENTICATED")
            /\ (~has429 /\ ~hasAuth /\ has404) => Is(404, "NOT_FOUND")
            /\ (~has429 /\ ~hasAuth /\ ~has404) => Is(500, "INTERNAL")

\* An error whose message holds "401" and after it "429" was answered 429.
InitialErrorStatusMappingWitness ==
    /\ response = "error"
    /\ FirstRejection = <<"4", "0", "1", "4", "2", "9">>
    /\ reply.status = 429

\* ------------------------------------------------------ the app chain
\* A handler has run for the request.
Ran(name) == \E i \in 1..Len(trace) : trace[i] = name
\* The position of a handler in the order the handlers ran.
RanAt(name) == CHOOSE i \in 1..Len(trace) : trace[i] = name
\* A key is configured under this binding.
Configured(key) == ~Falsy(key)
\* A header of the form "Bearer <token>": the word, one or more blanks, the
\* token.
IsBearerOf(header, token) ==
    /\ ~Falsy(header)
    /\ \E k \in 1..(Len(header.c) - Len(Bearer)) :
        /\ header.c = Bearer \o SubSeq(header.c, Len(Bearer) + 1, Len(Bearer) + k) \o token
        /\ \A i \in (Len(Bearer) + 1)..(Len(Bearer) + k) : IsSpace(header.c[i])
\* The request has been answered or handed to its route handler.
Handled == stage = "done"

\* C22: for a request that reached openAIApiKeyAuth on a path that is not
\* public, with OPENAI_API_KEY configured the route handler runs exactly if
\* the Authorization header is "Bearer <token>" with the configured key as
\* token; a missing header, a header of another form and a wrong token are
\* each answered 401 with their own error code and the route handler does
\* not run. With no key configured the route handler runs.
OpenAIKeyGate ==
    (Handled /\ Ran("openAIApiKeyAuth") /\ ~IsPublicEndpoint(req.path)) =>
        IF Configured(env.OPENAI_API_KEY)
        THEN /\ Ran("route") <=> IsBearerOf(req.authorization, env.OPENAI_API_KEY.c)
             /\ ~Ran("route") =>
                    /\ reply.status = 401
                    /\ Get(Get(reply.body, "error"), "code") =
                         Str(IF Falsy(req.authorization) THEN "missing_authorization"
                             ELSE IF \E tok \in {Key1, Key2, <<"\t">>} :
                                        IsBearerOf(req.authorization, tok)
                             THEN "invalid_api_key"
                             ELSE "invalid_authorization_format")
        ELSE Ran("route") /\ reply = Null

\* A request with the key after two blanks was let through to the route.
OpenAIKeyGateWitness ==
    /\ Handled
    /\ Ran("openAIApiKeyAuth")
    /\ Configured(env.OPENAI_API_KEY)
    /\ req.authorization = Text(Bearer \o <<" ", "\t">> \o Key1)
    /\ Ran("route")

\* The first of x-goog-api-key header, key query parameter and Bearer token
\* that is present, a source counting as present when it is not empty.
FirstPresentKey ==
    IF Configured(req.xGoogApiKey) THEN req.xGoogApiKey
    ELSE IF Configured(req.queryKey) THEN req.queryKey
    ELSE IF \E tok \in {Key1, Key2, <<"\t">>} : IsBearerOf(req.authorization, tok)
    THEN Text(CHOOSE tok \in {Key1, Key2, <<"\t">>} : IsBearerOf(req.authorization, tok))
    ELSE Undefined

\* C29: for a request that reached geminiApiKeyAuth on a path that is not
\* public with GEMINI_API_KEY configured, the route handler runs exactly if
\* the first present of x-goog-api-key header, key query parameter and
\* Bearer token equals the configured key, whatever the later sources hold;
\* otherwise the reply is 401, also when no source is present.
GeminiKeyPrecedence ==
    (Handled /\ Ran("geminiApiKeyAuth") /\ ~IsPublicEndpoint(req.path)
       /\ Configured(env.GEMINI_API_KEY)) =>
        /\ Ran("route") <=> FirstPresentKey = env.GEMINI_API_KEY
        /\ ~Ran("route") => reply.status = 401
        /\ FirstPresentKey = Undefined => ~Ran("route")

\* A wrong x-goog-api-key header was rejected although the query parameter
\* and the Bearer token both held the configured key.
GeminiKeyPrecedenceWitness ==
    /\ Handled
    /\ Ran("geminiApiKeyAuth")
    /\ env.GEMINI_API_KEY = Text(Key1)
    /\ req.xGoogApiKey = Text(Key2)
    /\ req.queryKey = Text(Key1)
    /\ req.authorization = Text(Bearer \o <<" ">> \o Key1)
    /\ reply # Null
    /\ ~Ran("route")

\* C30: a preflight request is answered 204 by the CORS middleware and then
\* nothing else runs for it: no authentication middleware, no route handler.
\* For any other method the CORS middleware has run before an authentication
\* middleware runs, and the authentication middleware of the path has run
\* before its route handler runs.
PreflightStopsAtCors ==
    /\ (req # Null /\ req.method = "OPTIONS") =>
        /\ ~Ran("openAIApiKeyAuth") /\ ~Ran("geminiApiKeyAuth") /\ ~Ran("route")
        /\ Handled => (reply.status = 204 /\ Ran("cors"))
    /\ \A a \in {"openAIApiKeyAuth", "geminiApiKeyAuth", "route"} :
        Ran(a) => (Ran("cors") /\ RanAt("cors") < RanAt(a))
    /\ (Ran("route") /\ MatchesV1(req.path)) =>
        (Ran("openAIApiKeyAuth") /\ RanAt("openAIApiKeyAuth") < RanAt("route"))
    /\ (Ran("route") /\ MatchesGemini(req.path)) =>
        (Ran("geminiApiKeyAuth") /\ RanAt("geminiApiKeyAuth") < RanAt("route"))

\* A preflight request to a /v1 path carrying no key, with a key configured,
\* has been answered.
PreflightStopsAtCorsWitness ==
    /\ Handled
    /\ req.method = "OPTIONS"
    /\ MatchesV1(req.path)
    /\ Configured(env.OPENAI_API_KEY)
    /\ Falsy(req.authorization)
    /\ reply.status = 204

\* ------------------------------------------------------------- proxyFetch
\* The positions of the trace where fetch was called.
Fetches == {i \in 1..Len(trace) : trace[i].op = "fetch"}
\* The positions of the trace where a step of the tunnel was taken.
TunnelSteps == {i \in 1..Len(trace) : "ok" \in DOMAIN trace[i]}
\* The positions of the trace where a step of the tunnel failed.
TunnelFailures == {i \in TunnelSteps : ~trace[i].ok}
\* proxyFetch has returned.
Returned == stage = "done" /\ req # Null

\* C23: without a proxy URL proxyFetch calls fetch once with its url and
\* init, takes no step of the tunnel, and returns what fetch gave. With a
\* proxy URL, once a step of the tunnel has failed (connect, CONNECT write,
\* CONNECT reply, TLS upgrade, request write, response read) the call never
\* rejects with the failure: fetch is called once, after the failure, with
\* the same url and init, and what it gives is what proxyFetch returns.
ProxyFallback ==
    /\ (req # Null /\ ~Truthy(req.proxyUrl)) =>
        /\ TunnelSteps = {}
        /\ Cardinality(Fetches) <= 1
        /\ Returned =>
            /\ Len(trace) = 2
            /\ trace[1] = FetchCall(req.url, req.init)
            /\ reply = trace[2].result
    /\ (req # Null /\ Truthy(req.proxyUrl) /\ TunnelFailures # {}) =>
        /\ Cardinality(TunnelFailures) = 1
        /\ Cardinality(Fetches) <= 1
        /\ \A i \in Fetches : \A k \in TunnelFailures : k < i
        /\ \A i \in Fetches : trace[i] = FetchCall(req.url, req.init)
        /\ reply \in {Null} \cup FetchResults
        /\ Returned =>
            /\ Cardinality(Fetches) = 1
            /\ trace[Len(trace)].op = "settled"
            /\ reply = trace[Len(trace)].result

\* A call through a proxy whose TLS upgrade failed has returned the 200
\* response of the direct fetch.
ProxyFallbackWitness ==
    /\ Returned
    /\ Truthy(req.proxyUrl)
    /\ \E i \in TunnelFailures : trace[i].op = "startTls"
    /\ reply = [status |-> 200]

\* ---------------------------------------- POST /models/:modelAction
\* The handler has answered, or has handed over to the streaming branch.
Answered == req # Null /\ stage \in {"done", "streaming"}
\* The names of the steps taken so far, in order.
StepsTaken == [i \in 1..Len(trace) |-> trace[i].op]
\* The steps of the handler in the order of the claim.
RouteOrder ==
    <<"parseModelAction", "model", "action", "json", "contents", "roles",
      "initializeAuth">>
\* A call of the upstream client is in the trace.
UpstreamCalls ==
    {i \in 1..Len(trace) :
        trace[i].op \in {"streamContentNative", "getCompletionNative"}}
\* The checks of the claim, on the request as it was sent.
HasColon == \E i \in 1..Len(req.modelAction) : req.modelAction[i] = ":"
ModelInCatalog == ParseModelAction(req.modelAction).model \in GeminiCliModels
ActionSupported ==
    ParseModelAction(req.modelAction).action
        \in {<<"generateContent">>, <<"streamGenerateContent">>}
SentContents == Get(req.sent, "contents")
ContentsNonEmptyArray ==
    req.sent.t = "object" /\ SentContents.t = "array" /\ Len(SentContents.a) > 0
\* A role the handler accepts: none, or one of the four names.
Acceptable(role) ==
    \/ ~Truthy(role)
    \/ role \in {Str("user"), Str("model"), Str("assistant"), Str("system")}
AllObjects == \A i \in 1..Len(SentContents.a) : SentContents.a[i].t = "object"
RolesAcceptable ==
    /\ AllObjects
    /\ \A i \in 1..Len(SentContents.a) : Acceptable(Get(SentContents.a[i], "role"))
\* The handler answered with this error after exactly n steps.
Refused(code, status, n) ==
    /\ reply # Null
    /\ reply.status = code
    /\ Get(ReplyError, "code") = Num(code)
    /\ Get(ReplyError, "status") = Str(status)
    /\ Len(trace) = n

RoleAtUpstream(role) ==
    CASE ~Truthy(role) -> Str("user")
      [] role = Str("assistant") -> Str("model")
      [] role = Str("system") -> Str("user")
      [] OTHER -> role

\* C28: at every call of the upstream client each entry of contents has
\* role user or model: user for an entry sent without a role or with role
\* system, model for assistant, user and model as sent, and nothing else of
\* the entry is changed. A request that passes the checks before the roles
\* and holds a role other than these is answered 400 without an upstream
\* call.
RoleNormalization ==
    /\ \A c \in UpstreamCalls :
        LET got == Get(trace[c].body, "contents").a
        IN  /\ Len(got) = Len(SentContents.a)
            /\ \A i \in 1..Len(got) :
                /\ Get(got[i], "role") \in {Str("user"), Str("model")}
                /\ Get(got[i], "role") = RoleAtUpstream(Get(SentContents.a[i], "role"))
                /\ Get(got[i], "parts") = Get(SentContents.a[i], "parts")
    /\ (Answered /\ HasColon /\ ModelInCatalog /\ ActionSupported
            /\ ContentsNonEmptyArray /\ AllObjects /\ ~RolesAcceptable) =>
        (reply # Null /\ reply.status = 400 /\ UpstreamCalls = {})

\* The upstream client was called for contents sent with the roles system
\* and assistant.
RoleNormalizationWitness ==
    /\ UpstreamCalls # {}
    /\ SentContents = Arr(<<Content(Str("system")), Content(Str("assistant"))>>)

\* ------------------------------------------- proxyFetch: the handshake
\* The positions of the trace where this step was taken.
StepsOf(op) == {i \in 1..Len(trace) : trace[i].op = op}
\* The positions where a CONNECT reply was read.
RepliesRead == {i \in StepsOf("readConnect") : trace[i].ok}
\* The reply read begins with "HTTP/1.1 200" or "HTTP/1.0 200".
Begins200(i) ==
    \/ StartsWith(trace[i].text, <<"HTTP/1.1", " ", "2", "0", "0">>)
    \/ StartsWith(trace[i].text, <<"HTTP/1.0", " ", "2", "0", "0">>)

\* The TLS upgrade and the request write come after a CONNECT write and a
\* reply beginning with a 200 status line.
UpgradeAfterHandshake ==
    \A i \in StepsOf("startTls") \cup StepsOf("writeRequest") :
        \E j \in StepsOf("writeConnect"), k \in RepliesRead :
            /\ j < k /\ k < i
            /\ trace[j].ok
            /\ Begins200(k)

\* C31: the TLS upgrade and the request write come only after a CONNECT
\* write and a reply beginning with "HTTP/1.1 200" or "HTTP/1.0 200"; and
\* after any other reply, a reply cut short by the proxy closing before the
\* blank line among them, no request is written through the tunnel.
TunnelHandshakeOrdering ==
    req # Null =>
        /\ UpgradeAfterHandshake
        /\ \A k \in RepliesRead :
            (~Begins200(k) \/ trace[k].done) => StepsOf("writeRequest") = {}

\* ------------------------------------------------- the role announcement
\* A valid text, thinking_content or tool_call event.
IsBearing(chunk) == IsContentEvent(chunk) \/ IsToolCall(chunk)
\* A frame whose delta has a role field.
HasRole(f) == IsJSONFrame(f) /\ In("role", FrameDelta(f))
\* A frame whose delta has a content field or a tool-call list: the frame of
\* a text, thinking_content or tool_call event.
IsBearingFrame(f) ==
    IsDeltaFrame(f) /\ (In("content", FrameDelta(f)) \/ In("tool_calls", FrameDelta(f)))
BearingEvents == Only(events, IsBearing)
BearingFrames == Only(out, IsBearingFrame)
\* The frame is the one this event gives.
FrameOfEvent(f, chunk) ==
    IF IsToolCall(chunk)
    THEN /\ HasToolCalls(f)
         /\ Get(Get(ToolCallOf(f), "function"), "name") = Get(chunk.data, "name")
    ELSE Get(FrameDelta(f), "content") = chunk.data

\* On every state: one frame per valid text, thinking_content or tool_call
\* event; the first of them, and no other frame, has role "assistant"; the
\* flag is set exactly while there was no such event.
RoleOnFirstBearingFrame ==
    /\ Len(BearingFrames) = Len(BearingEvents)
    /\ \A k \in 1..Len(BearingFrames) : FrameOfEvent(BearingFrames[k], BearingEvents[k])
    /\ Cardinality(Positions(out, HasRole)) <= 1
    /\ \A k \in 1..Len(out) :
        HasRole(out[k]) =>
            /\ out[k] = BearingFrames[1]
            /\ Get(FrameDelta(out[k]), "role") = Str("assistant")
    /\ BearingFrames # <<>> => HasRole(BearingFrames[1])
    /\ firstChunk <=> BearingEvents = <<>>

\* C32: at most one emitted frame has a role field and it is the frame of
\* the first valid text, thinking_content or tool_call event; the flag, once
\* cleared, stays cleared; an event of another kind leaves the flag as it is
\* and adds no frame with a role.
RoleAnnouncedOnce ==
    /\ []RoleOnFirstBearingFrame
    /\ [][/\ ~firstChunk => ~firstChunk'
          /\ (events' # events /\ ~IsBearing(events'[Len(events')])) =>
                /\ firstChunk' = firstChunk
                /\ \A k \in (Len(out) + 1)..Len(out') : ~HasRole(out'[k])]_vars

\* A real_thinking event, then a tool_call announcing the role, then a text
\* without it, and the session finalized.
RoleAnnouncedOnceWitness ==
    /\ phase = "finalized"
    /\ Len(events) = 3
    /\ events[1] = Chunk("real_thinking", Str("r"))
    /\ IsToolCall(events[2])
    /\ IsTextEvent(events[3])
    /\ Cardinality(Positions(out, HasRole)) = 1
    /\ HasRole(out[2])

\* ------------------------------------------------------ frame conditions
\* The bindings of the session.
SessionState ==
    <<chatID, creationTime, model, firstChunk, toolCallId, toolCallName,
      toolCallIndex, finishReason, usageData>>
\* The bindings but the buffered finish reason.
AllButFinishReason ==
    <<chatID, creationTime, model, firstChunk, toolCallId, toolCallName,
      toolCallIndex, usageData>>
\* The bindings but the buffered usage.
AllButUsage ==
    <<chatID, creationTime, model, firstChunk, toolCallId, toolCallName,
      toolCallIndex, finishReason>>
\* A real_thinking, reasoning, native_tool or grounding event.
IsSideEvent(chunk) ==
    /\ chunk.type \in {"real_thinking", "reasoning", "native_tool", "grounding_metadata"}
    /\ ~IsDropped(chunk)

\* C33: a transform call for a dropped chunk (unknown kind or failed
\* structural check) leaves every binding of the session as it was; for a
\* real_thinking, reasoning, native_tool or grounding event it leaves the
\* first-chunk flag, the tool-call counter, the buffered finish reason and
\* the buffered usage as they were; for a finish_signal event it leaves
\* everything but the buffered finish reason, for a usage event everything
\* but the buffered usage.
FrameConditions ==
    [][events' # events =>
        LET chunk == events'[Len(events')]
        IN  /\ IsDropped(chunk) => SessionState' = SessionState
            /\ IsSideEvent(chunk) =>
                <<firstChunk, toolCallIndex, finishReason, usageData>>'
                    = <<firstChunk, toolCallIndex, finishReason, usageData>>
            /\ IsFinishSignal(chunk) => AllButFinishReason' = AllButFinishReason
            /\ IsUsageEvent(chunk) => AllButUsage' = AllButUsage]_vars

\* A tool_call, a finish_signal and a real_thinking event were transformed:
\* the counter, the flag and the buffered reason stand as the first two
\* left them.
FrameConditionsWitness ==
    /\ Len(events) = 3
    /\ IsToolCall(events[1])
    /\ events[2] = Chunk("finish_reason", Str("MAX_TOKENS"))
    /\ events[3] = Chunk("real_thinking", Str("r"))
    /\ toolCallIndex = 1
    /\ ~firstChunk
    /\ finishReason = Str("MAX_TOKENS")

\* ------------------------------------------ the streaming route: liveness
\* The upstream has ended, every valid envelope pulled from it has been
\* emitted as a frame, in order, and the response body has ended.
DeliveredAndClosed ==
    /\ iterator # "open"
    /\ pumpPc = "done"
    /\ writer = "closing"
    /\ nativePhase = "finalized"
    /\ Len(nativeOut) = Len(Only(pulled, IsEnvelope))
    /\ \A k \in 1..Len(nativeOut) :
        nativeOut[k] = SSEFrame(JSONstringify(Only(pulled, IsEnvelope)[k].data))

\* C34: the first write is reached with nothing read from the response body
\* and nothing in the stream, and it completes: the response is returned.
\* Once the response is returned, unless the client disconnects, the
\* upstream ends, every valid envelope pulled is emitted as a frame and the
\* response body ends.
PumpDeliversAndCloses ==
    /\ [](pumpPc = "firstWrite" =>
            (response = "none" /\ pipe = <<>> /\ nativeEvents = <<>>))
    /\ (pumpPc = "firstWrite") ~> (response = "stream")
    /\ (response = "stream") ~> (consumer = "cancelled" \/ DeliveredAndClosed)

\* Three envelopes were pulled, the upstream ended, and with the client
\* connected the three frames were emitted and the body ended.
PumpDeliversAndClosesWitness ==
    /\ DeliveredAndClosed
    /\ consumer = "connected"
    /\ iterator = "done"
    /\ Len(nativeOut) = 3

====
